---- MODULE Spec2Model ----
EXTENDS Integers, Sequences, FiniteSets, TLC

(***************************************************************************)
(* Geometry: colours, piece types, squares.                                *)
(***************************************************************************)
White == "White"
Black == "Black"
Colors == {White, Black}

Pawn == "Pawn"
Rook == "Rook"
Knight == "Knight"
Bishop == "Bishop"
Queen == "Queen"
King == "King"

oppositeColor(c) == IF c = White THEN Black ELSE White

Piece(t, c) == [type |-> t, color |-> c]

Files == <<"a", "b", "c", "d", "e", "f", "g", "h">>

Squares == 1..64
Sq(r, f) == (r - 1) * 8 + f
rank(s) == ((s - 1) \div 8) + 1
fileNum(s) == ((s - 1) % 8) + 1
file(s) == Files[fileNum(s)]
isInsideBoundaries(r, f) == r \in 1..8 /\ f \in 1..8

Abs(x) == IF x < 0 THEN -x ELSE x
Sgn(x) == IF x < 0 THEN -1 ELSE IF x > 0 THEN 1 ELSE 0

Shift(s, dr, df) ==
    IF isInsideBoundaries(rank(s) + dr, fileNum(s) + df)
    THEN {Sq(rank(s) + dr, fileNum(s) + df)} ELSE {}

KnightJumps == {<<1, 2>>, <<2, 1>>, <<-1, 2>>, <<-2, 1>>,
                <<1, -2>>, <<2, -1>>, <<-1, -2>>, <<-2, -1>>}
KingSteps == {<<1, 0>>, <<1, 1>>, <<0, 1>>, <<-1, 1>>,
              <<-1, 0>>, <<-1, -1>>, <<0, -1>>, <<1, -1>>}

KnightTargets(s) == UNION {Shift(s, d[1], d[2]) : d \in KnightJumps}
KingTargets(s) == UNION {Shift(s, d[1], d[2]) : d \in KingSteps}

OnRookLine(a, b) == a # b /\ (rank(a) = rank(b) \/ fileNum(a) = fileNum(b))
OnBishopLine(a, b) == a # b /\ Abs(rank(a) - rank(b)) = Abs(fileNum(a) - fileNum(b))

\* Squares strictly between two aligned squares.
Between(a, b) ==
    LET dr == Sgn(rank(b) - rank(a))
        df == Sgn(fileNum(b) - fileNum(a))
        n == IF rank(a) = rank(b) THEN Abs(fileNum(b) - fileNum(a))
             ELSE Abs(rank(b) - rank(a))
    IN {Sq(rank(a) + k * dr, fileNum(a) + k * df) : k \in 1..(n - 1)}

RookTargets(s) == {t \in Squares : OnRookLine(s, t)}
BishopTargets(s) == {t \in Squares : OnBishopLine(s, t)}

(***************************************************************************)
(* Board: sparse piece placement, a function from occupied squares to      *)
(* pieces.                                                                 *)
(***************************************************************************)
None == "None"
NoPiece == [type |-> None, color |-> None]

pieceAt(board, s) == IF s \in DOMAIN board THEN board[s] ELSE NoPiece
occupiedSquares(board) == {<<s, board[s]>> : s \in DOMAIN board}
squaresOf(board, c) == {s \in DOMAIN board : board[s].color = c}

BackRank == <<Rook, Knight, Bishop, Queen, King, Bishop, Knight, Rook>>

standardBoard ==
    [s \in (1..16) \cup (49..64) |->
        IF rank(s) = 1 THEN Piece(BackRank[fileNum(s)], White)
        ELSE IF rank(s) = 2 THEN Piece(Pawn, White)
        ELSE IF rank(s) = 7 THEN Piece(Pawn, Black)
        ELSE Piece(BackRank[fileNum(s)], Black)]

(***************************************************************************)
(* Castling rights: a bit set, one bit per colour and side.                *)
(***************************************************************************)
SIMPLECHESS_CASTLING_WHITE_KINGSIDE == 1
SIMPLECHESS_CASTLING_WHITE_QUEENSIDE == 2
SIMPLECHESS_CASTLING_BLACK_KINGSIDE == 4
SIMPLECHESS_CASTLING_BLACK_QUEENSIDE == 8
CastlingBits == {SIMPLECHESS_CASTLING_WHITE_KINGSIDE, SIMPLECHESS_CASTLING_WHITE_QUEENSIDE,
                 SIMPLECHESS_CASTLING_BLACK_KINGSIDE, SIMPLECHESS_CASTLING_BLACK_QUEENSIDE}

hasRight(rights, bit) == (rights \div bit) % 2 = 1
withoutRight(rights, bit) == IF hasRight(rights, bit) THEN rights - bit ELSE rights
RECURSIVE withoutRights(_, _)
withoutRights(rights, bits) ==
    IF bits = {} THEN rights
    ELSE LET b == CHOOSE b \in bits : TRUE
         IN withoutRights(withoutRight(rights, b), bits \ {b})

kingHome(c) == IF c = White THEN Sq(1, 5) ELSE Sq(8, 5)
kingsideRook(c) == IF c = White THEN Sq(1, 8) ELSE Sq(8, 8)
queensideRook(c) == IF c = White THEN Sq(1, 1) ELSE Sq(8, 1)
kingsideBit(c) ==
    IF c = White THEN SIMPLECHESS_CASTLING_WHITE_KINGSIDE ELSE SIMPLECHESS_CASTLING_BLACK_KINGSIDE
queensideBit(c) ==
    IF c = White THEN SIMPLECHESS_CASTLING_WHITE_QUEENSIDE ELSE SIMPLECHESS_CASTLING_BLACK_QUEENSIDE

(***************************************************************************)
(* Piece moves: intent, not legality.                                      *)
(***************************************************************************)
regularMove(piece, src, dst) == [piece |-> piece, src |-> src, dst |-> dst, promoted |-> None]
pawnPromotion(piece, src, dst, promoted) ==
    [piece |-> piece, src |-> src, dst |-> dst, promoted |-> promoted]
PromotionTypes == {Rook, Knight, Bishop, Queen}

(***************************************************************************)
(* Move generator.                                                         *)
(***************************************************************************)
pawnDir(c) == IF c = White THEN 1 ELSE -1
pawnStartRank(c) == IF c = White THEN 2 ELSE 7
promotionRank(c) == IF c = White THEN 8 ELSE 1

pathClear(board, a, b) == Between(a, b) \cap DOMAIN board = {}

\* The piece on square p attacks square t (whoever is to move).
attacks(board, p, t) ==
    LET pc == board[p]
    IN CASE pc.type = Pawn -> t \in Shift(p, pawnDir(pc.color), -1) \cup Shift(p, pawnDir(pc.color), 1)
         [] pc.type = Knight -> t \in KnightTargets(p)
         [] pc.type = King -> t \in KingTargets(p)
         [] pc.type = Rook -> OnRookLine(p, t) /\ pathClear(board, p, t)
         [] pc.type = Bishop -> OnBishopLine(p, t) /\ pathClear(board, p, t)
         [] pc.type = Queen ->
              (OnRookLine(p, t) \/ OnBishopLine(p, t)) /\ pathClear(board, p, t)

isAttacked(board, t, by) == \E p \in squaresOf(board, by) : attacks(board, p, t)

isInCheck(board, c) ==
    \E k \in DOMAIN board : board[k] = Piece(King, c) /\ isAttacked(board, k, oppositeColor(c))

pawnDestinations(stage, s) ==
    LET b == stage.board
        c == b[s].color
        d == pawnDir(c)
        one == Shift(s, d, 0) \ DOMAIN b
        two == IF rank(s) = pawnStartRank(c) /\ one # {}
               THEN Shift(s, 2 * d, 0) \ DOMAIN b ELSE {}
        caps == {t \in Shift(s, d, -1) \cup Shift(s, d, 1) :
                    \/ t \in DOMAIN b /\ b[t].color # c
                    \/ t = stage.enPassantTarget}
    IN one \cup two \cup caps

pawnMoves(stage, s) ==
    LET pc == stage.board[s]
    IN UNION {IF rank(t) = promotionRank(pc.color)
              THEN {pawnPromotion(pc, s, t, pt) : pt \in PromotionTypes}
              ELSE {regularMove(pc, s, t)} : t \in pawnDestinations(stage, s)}

\* Faulty variant: attacked squares are not looked at.
castlingDestinations_through_check(stage, s) ==
    LET b == stage.board
        c == b[s].color
        r == rank(s)
        free(fs) == \A f \in fs : Sq(r, f) \notin DOMAIN b
    IN IF s # kingHome(c) THEN {}
       ELSE (IF hasRight(stage.castlingRights, kingsideBit(c)) /\ free({6, 7})
             THEN {Sq(r, 7)} ELSE {})
            \cup
            (IF hasRight(stage.castlingRights, queensideBit(c)) /\ free({2, 3, 4})
             THEN {Sq(r, 3)} ELSE {})

castlingDestinations(stage, s) ==
    LET b == stage.board
        c == b[s].color
        opp == oppositeColor(c)
        r == rank(s)
        free(fs) == \A f \in fs : Sq(r, f) \notin DOMAIN b
        safe(fs) == \A f \in fs : ~isAttacked(b, Sq(r, f), opp)
    IN IF s # kingHome(c) \/ isAttacked(b, s, opp) THEN {}
       ELSE (IF hasRight(stage.castlingRights, kingsideBit(c)) /\ free({6, 7}) /\ safe({6, 7})
             THEN {Sq(r, 7)} ELSE {})
            \cup
            (IF hasRight(stage.castlingRights, queensideBit(c)) /\ free({2, 3, 4}) /\ safe({3, 4})
             THEN {Sq(r, 3)} ELSE {})

pieceDestinations(stage, s) ==
    LET b == stage.board
        pc == b[s]
        own == squaresOf(b, pc.color)
    IN CASE pc.type = Knight -> KnightTargets(s) \ own
         [] pc.type = King -> (KingTargets(s) \ own) \cup castlingDestinations(stage, s)
         [] pc.type = Rook -> {t \in RookTargets(s) \ own : pathClear(b, s, t)}
         [] pc.type = Bishop -> {t \in BishopTargets(s) \ own : pathClear(b, s, t)}
         [] pc.type = Queen ->
              {t \in (RookTargets(s) \cup BishopTargets(s)) \ own : pathClear(b, s, t)}

pseudoLegalMoves(stage, s) ==
    IF stage.board[s].type = Pawn THEN pawnMoves(stage, s)
    ELSE {regularMove(stage.board[s], s, t) : t \in pieceDestinations(stage, s)}

isCastling(m) == m.piece.type = King /\ Abs(fileNum(m.dst) - fileNum(m.src)) = 2
isEnPassant(stage, m) ==
    m.piece.type = Pawn /\ m.dst = stage.enPassantTarget /\ fileNum(m.dst) # fileNum(m.src)

capturedSquare(stage, m) ==
    IF isEnPassant(stage, m) THEN Sq(rank(m.src), fileNum(m.dst)) ELSE m.dst

\* The board after the move: capture removal, en-passant capture of the
\* passed-over pawn, rook relocation for castling, promotion substitution.
boardAfter(stage, m) ==
    LET b == stage.board
        placed == IF m.promoted # None THEN Piece(m.promoted, m.piece.color) ELSE m.piece
        r == rank(m.src)
        rookFrom == IF fileNum(m.dst) = 7 THEN Sq(r, 8) ELSE Sq(r, 1)
        rookTo == IF fileNum(m.dst) = 7 THEN Sq(r, 6) ELSE Sq(r, 4)
        gone == {m.src, capturedSquare(stage, m)} \cup (IF isCastling(m) THEN {rookFrom} ELSE {})
        kept == (DOMAIN b \ gone) \cup {m.dst} \cup (IF isCastling(m) THEN {rookTo} ELSE {})
    IN [s \in kept |->
          IF s = m.dst THEN placed
          ELSE IF isCastling(m) /\ s = rookTo THEN Piece(Rook, m.piece.color)
          ELSE b[s]]

availableMovesForPiece(stage, s) ==
    IF s \notin DOMAIN stage.board \/ stage.board[s].color # stage.activeColor THEN {}
    ELSE {m \in pseudoLegalMoves(stage, s) : ~isInCheck(boardAfter(stage, m), stage.activeColor)}

allAvailableMoves(stage) ==
    UNION {availableMovesForPiece(stage, s) : s \in squaresOf(stage.board, stage.activeColor)}


(***************************************************************************)
(* Game stages, played moves and games.                                    *)
(***************************************************************************)
Playing == "Playing"
Drawn == "Drawn"
WhiteWon == "WhiteWon"
BlackWon == "BlackWon"

StaleMate == "StaleMate"
InsufficientMaterial == "InsufficientMaterial"
OfferedAndAccepted == "OfferedAndAccepted"
ThreeFoldRepetition == "ThreeFoldRepetition"
FiveFoldRepetition == "FiveFoldRepetition"
FiftyMoveRule == "FiftyMoveRule"
SeventyFiveMoveRule == "SeventyFiveMoveRule"

NoCheck == "NoCheck"
Check == "Check"
CheckMate == "CheckMate"

\* Half-move thresholds of the move-count rules, and repetition counts.
FiftyMoveHalfMoves == 100
SeventyFiveMoveHalfMoves == 150
ThreeFold == 3
FiveFold == 5

\* An optional value is a sequence of length 0 or 1.
Nothing == << >>
Just(v) == <<v>>
has_value(o) == Len(o) = 1
value(o) == o[1]

GameStage(board, activeColor, castlingRights, enPassantTarget, halfMoves, fullMoves, move) ==
    [board |-> board, activeColor |-> activeColor, castlingRights |-> castlingRights,
     enPassantTarget |-> enPassantTarget,
     halfMovesSinceLastCaptureOrPawnAdvance |-> halfMoves,
     fullMoveCounter |-> fullMoves, move |-> move]

\* The characters of strings: digits and piece letters.
Digits == <<"0", "1", "2", "3", "4", "5", "6", "7", "8", "9">>
isDigit(ch) == \E i \in 1..10 : Digits[i] = ch
digitValue(ch) == (CHOOSE i \in 1..10 : Digits[i] = ch) - 1
TypeOrder == <<Pawn, Rook, Knight, Bishop, Queen, King>>
WhiteLetters == <<"P", "R", "N", "B", "Q", "K">>
BlackLetters == <<"p", "r", "n", "b", "q", "k">>
typeIndex(t) == CHOOSE i \in 1..6 : TypeOrder[i] = t
pieceChar(piece) ==
    IF piece.color = White THEN WhiteLetters[typeIndex(piece.type)]
    ELSE BlackLetters[typeIndex(piece.type)]
isPieceChar(ch) == \E i \in 1..6 : WhiteLetters[i] = ch \/ BlackLetters[i] = ch
charPiece(ch) ==
    IF \E i \in 1..6 : WhiteLetters[i] = ch
    THEN Piece(TypeOrder[CHOOSE i \in 1..6 : WhiteLetters[i] = ch], White)
    ELSE Piece(TypeOrder[CHOOSE i \in 1..6 : BlackLetters[i] = ch], Black)

squareToString(s) == <<file(s), Digits[rank(s) + 1]>>

\* PlayedMove::inAlgebraicNotation: the piece letter (none for a pawn), the
\* source file, rank or both where other pieces of the same kind could go to
\* the same square, x for a capture, the destination, =Letter for a
\* promotion, + for check and # for checkmate; O-O and O-O-O for castling.
disambiguation(moves, m) ==
    LET rivals == {o \in moves : o.piece = m.piece /\ o.dst = m.dst /\ o.src # m.src}
    IN IF rivals = {} THEN << >>
       ELSE IF \A o \in rivals : fileNum(o.src) # fileNum(m.src) THEN <<squareToString(m.src)[1]>>
       ELSE IF \A o \in rivals : rank(o.src) # rank(m.src) THEN <<squareToString(m.src)[2]>>
       ELSE squareToString(m.src)

algebraicNotation(moves, m, captures, check) ==
    LET body == IF isCastling(m)
                THEN (IF fileNum(m.dst) > fileNum(m.src) THEN <<"O", "-", "O">>
                      ELSE <<"O", "-", "O", "-", "O">>)
                ELSE (IF m.piece.type = Pawn THEN << >>
                      ELSE <<pieceChar(Piece(m.piece.type, White))>>)
                     \o disambiguation(moves, m)
                     \o (IF captures THEN <<"x">> ELSE << >>)
                     \o squareToString(m.dst)
                     \o (IF m.promoted # None
                         THEN <<"=", pieceChar(Piece(m.promoted, White))>> ELSE << >>)
    IN body \o (IF check = CheckMate THEN <<"#">> ELSE IF check = Check THEN <<"+">> ELSE << >>)

PlayedMove(pieceMove, inAlgebraicNotation, capturedPiece, checkType, isDrawOffered) ==
    [pieceMove |-> pieceMove, inAlgebraicNotation |-> inAlgebraicNotation,
     capturedPiece |-> capturedPiece, checkType |-> checkType, isDrawOffered |-> isDrawOffered]

capturedPiece(stage, m) == pieceAt(stage.board, capturedSquare(stage, m))

\* Castling rights lost by a move: a king or a rook leaving its original
\* square, or a rook captured on its original square.
lostRights(stage, m) ==
    LET c == m.piece.color
        opp == oppositeColor(c)
        cap == capturedPiece(stage, m)
    IN (IF m.piece.type = King /\ m.src = kingHome(c)
        THEN {kingsideBit(c), queensideBit(c)} ELSE {})
       \cup (IF m.piece.type = Rook /\ m.src = kingsideRook(c) THEN {kingsideBit(c)} ELSE {})
       \cup (IF m.piece.type = Rook /\ m.src = queensideRook(c) THEN {queensideBit(c)} ELSE {})
       \cup (IF cap.type = Rook /\ m.dst = kingsideRook(opp) THEN {kingsideBit(opp)} ELSE {})
       \cup (IF cap.type = Rook /\ m.dst = queensideRook(opp) THEN {queensideBit(opp)} ELSE {})

enPassantAfter(m) ==
    IF m.piece.type = Pawn /\ Abs(rank(m.dst) - rank(m.src)) = 2
    THEN Sq(rank(m.src) + pawnDir(m.piece.color), fileNum(m.src)) ELSE 0

halfMovesAfter(stage, m) ==
    IF capturedPiece(stage, m) # NoPiece \/ m.piece.type = Pawn THEN 0
    ELSE stage.halfMovesSinceLastCaptureOrPawnAdvance + 1

fullMovesAfter(stage, m) ==
    IF stage.activeColor = Black THEN stage.fullMoveCounter + 1 ELSE stage.fullMoveCounter

checkTypeOf(board, c, moves) ==
    IF ~isInCheck(board, c) THEN NoCheck
    ELSE IF moves = {} THEN CheckMate ELSE Check

\* The stage a legal move produces, before its played move is attached.
positionAfter(stage, m) ==
    GameStage(boardAfter(stage, m), oppositeColor(stage.activeColor),
              withoutRights(stage.castlingRights, lostRights(stage, m)),
              enPassantAfter(m), halfMovesAfter(stage, m), fullMovesAfter(stage, m), Nothing)

squareColor(s) == IF (rank(s) + fileNum(s)) % 2 = 0 THEN Black ELSE White

insufficientMaterial(board) ==
    LET others == {s \in DOMAIN board : board[s].type # King}
        minors == {s \in others : board[s].type \in {Bishop, Knight}}
    IN \/ others = {}
       \/ Cardinality(others) = 1 /\ minors = others
       \/ /\ Cardinality(others) = 2
          /\ \A s \in others : board[s].type = Bishop
          /\ \E s, t \in others : /\ board[s].color # board[t].color
                                  /\ squareColor(s) = squareColor(t)

samePosition(a, b) ==
    /\ a.board = b.board
    /\ a.activeColor = b.activeColor
    /\ a.castlingRights = b.castlingRights
    /\ a.enPassantTarget = b.enPassantTarget

repetitions(history) ==
    Cardinality({i \in 1..Len(history) : samePosition(history[i], history[Len(history)])})

Game(gameState, drawReason, history, moves, reasonToClaimDraw) ==
    [gameState |-> gameState, drawReason |-> drawReason, history |-> history,
     allAvailableMoves |-> moves, reasonToClaimDraw |-> reasonToClaimDraw]

currentStage(game) == game.history[Len(game.history)]
activeColor(game) == currentStage(game).activeColor
wonBy(c) == IF c = White THEN WhiteWon ELSE BlackWon

claimableReason(history, offered) ==
    LET cur == history[Len(history)]
    IN IF offered THEN OfferedAndAccepted
       ELSE IF repetitions(history) >= ThreeFold THEN ThreeFoldRepetition
       ELSE IF cur.halfMovesSinceLastCaptureOrPawnAdvance >= FiftyMoveHalfMoves THEN FiftyMoveRule
       ELSE None

\* The game whose history is given: terminal outcome, automatic draws,
\* the legal moves and the reason a draw can be claimed for, if any.
buildGame(history, moves, offered) ==
    LET cur == history[Len(history)]
        inCheck == isInCheck(cur.board, cur.activeColor)
    IN IF moves = {} /\ inCheck
       THEN Game(wonBy(oppositeColor(cur.activeColor)), None, history, {}, None)
       ELSE IF moves = {} THEN Game(Drawn, StaleMate, history, {}, None)
       ELSE IF insufficientMaterial(cur.board)
       THEN Game(Drawn, InsufficientMaterial, history, {}, None)
       ELSE IF repetitions(history) >= FiveFold
       THEN Game(Drawn, FiveFoldRepetition, history, {}, None)
       ELSE IF cur.halfMovesSinceLastCaptureOrPawnAdvance >= SeventyFiveMoveHalfMoves
       THEN Game(Drawn, SeventyFiveMoveRule, history, {}, None)
       ELSE Game(Playing, None, history, moves, claimableReason(history, offered))

(***************************************************************************)
(* Game manager: the operations produce a new game or throw.               *)
(***************************************************************************)
IllegalStateException == "IllegalStateException"
invalid_argument == "std::invalid_argument"
out_of_range == "std::out_of_range"
bad_alloc == "std::bad_alloc"

Returned(v) == [exc |-> None, result |-> Just(v)]
Thrown(e) == [exc |-> e, result |-> Nothing]

standardStage == GameStage(standardBoard, White, 15, 0, 0, 1, Nothing)

createNewGame == Returned(buildGame(<<standardStage>>, allAvailableMoves(standardStage), FALSE))

makeMove(game, m, offerDraw) ==
    IF game.gameState # Playing THEN Thrown(IllegalStateException)
    ELSE IF m \notin game.allAvailableMoves THEN Thrown(IllegalStateException)
    ELSE LET cur == currentStage(game)
             next == positionAfter(cur, m)
             moves == allAvailableMoves(next)
             check == checkTypeOf(next.board, next.activeColor, moves)
             captures == capturedPiece(cur, m) # NoPiece
             played == PlayedMove(m, algebraicNotation(game.allAvailableMoves, m, captures, check),
                                  capturedPiece(cur, m), check, offerDraw)
         IN Returned(buildGame(Append(game.history, [next EXCEPT !.move = Just(played)]),
                               moves, offerDraw))

claimDraw(game) ==
    IF game.gameState # Playing THEN Thrown(IllegalStateException)
    ELSE IF game.reasonToClaimDraw = None THEN Thrown(IllegalStateException)
    ELSE Returned(Game(Drawn, game.reasonToClaimDraw, game.history, {}, None))

resign(game, resigningPlayer) ==
    IF game.gameState # Playing THEN Thrown(IllegalStateException)
    ELSE Returned(Game(wonBy(oppositeColor(resigningPlayer)), None, game.history, {}, None))

drawReason(game) ==
    IF game.gameState # Drawn THEN Thrown(IllegalStateException) ELSE Returned(game.drawReason)


(***************************************************************************)
(* FEN codec.  A string is a sequence of one-character strings.            *)
(***************************************************************************)
RECURSIVE toDecimal(_)
toDecimal(n) ==
    IF n < 10 THEN <<Digits[n + 1]>>
    ELSE Append(toDecimal(n \div 10), Digits[(n % 10) + 1])

RECURSIVE fromDecimal(_)
fromDecimal(chars) ==
    IF chars = << >> THEN 0
    ELSE 10 * fromDecimal(SubSeq(chars, 1, Len(chars) - 1)) + digitValue(chars[Len(chars)])

isNumber(chars) == chars # << >> /\ \A i \in 1..Len(chars) : isDigit(chars[i])

RECURSIVE rankFen(_, _, _, _)
rankFen(board, r, f, empty) ==
    LET gap == IF empty > 0 THEN <<Digits[empty + 1]>> ELSE << >>
    IN IF f > 8 THEN gap
       ELSE IF Sq(r, f) \in DOMAIN board
       THEN gap \o <<pieceChar(board[Sq(r, f)])>> \o rankFen(board, r, f + 1, 0)
       ELSE rankFen(board, r, f + 1, empty + 1)

RECURSIVE placementFen(_, _)
placementFen(board, r) ==
    rankFen(board, r, 1, 0) \o (IF r = 1 THEN << >> ELSE <<"/">> \o placementFen(board, r - 1))

castlingFen(rights) ==
    IF rights = 0 THEN <<"-">>
    ELSE (IF hasRight(rights, SIMPLECHESS_CASTLING_WHITE_KINGSIDE) THEN <<"K">> ELSE << >>)
         \o (IF hasRight(rights, SIMPLECHESS_CASTLING_WHITE_QUEENSIDE) THEN <<"Q">> ELSE << >>)
         \o (IF hasRight(rights, SIMPLECHESS_CASTLING_BLACK_KINGSIDE) THEN <<"k">> ELSE << >>)
         \o (IF hasRight(rights, SIMPLECHESS_CASTLING_BLACK_QUEENSIDE) THEN <<"q">> ELSE << >>)

fen(stage) ==
    placementFen(stage.board, 8)
    \o <<" ", IF stage.activeColor = White THEN "w" ELSE "b", " ">>
    \o castlingFen(stage.castlingRights) \o <<" ">>
    \o (IF stage.enPassantTarget = 0 THEN <<"-">> ELSE squareToString(stage.enPassantTarget))
    \o <<" ">> \o toDecimal(stage.halfMovesSinceLastCaptureOrPawnAdvance)
    \o <<" ">> \o toDecimal(stage.fullMoveCounter)

\* The fields of a string between occurrences of a separator.
RECURSIVE split(_, _)
split(chars, sep) ==
    IF \A i \in 1..Len(chars) : chars[i] # sep THEN <<chars>>
    ELSE LET i == CHOOSE i \in 1..Len(chars) :
                      chars[i] = sep /\ \A j \in 1..(i - 1) : chars[j] # sep
         IN <<SubSeq(chars, 1, i - 1)>> \o split(SubSeq(chars, i + 1, Len(chars)), sep)

Invalid == [type |-> "Invalid", color |-> None]

\* One rank of the placement field as the pieces on its files, left to right.
RECURSIVE expandRank(_)
expandRank(chars) ==
    IF chars = << >> THEN << >>
    ELSE LET ch == Head(chars)
         IN (IF isDigit(ch) THEN [i \in 1..digitValue(ch) |-> NoPiece]
             ELSE IF isPieceChar(ch) THEN <<charPiece(ch)>>
             ELSE <<Invalid>>)
            \o expandRank(Tail(chars))

validRank(chars) ==
    LET row == expandRank(chars)
    IN Len(row) = 8 /\ \A i \in 1..8 : row[i] # Invalid

\* ranks is the placement field split at "/", rank 8 first.
placementBoard(ranks) ==
    LET rows == [r \in 1..8 |-> expandRank(ranks[9 - r])]
        occ == {s \in Squares : rows[rank(s)][fileNum(s)] # NoPiece}
    IN [s \in occ |-> rows[rank(s)][fileNum(s)]]

validPlacement(chars) ==
    LET ranks == split(chars, "/")
    IN /\ Len(ranks) = 8
       /\ \A i \in 1..8 : validRank(ranks[i])
       /\ LET b == placementBoard(ranks)
          IN \A c \in Colors : Cardinality({s \in DOMAIN b : b[s] = Piece(King, c)}) <= 1

CastlingLetters == <<"K", "Q", "k", "q">>
CastlingLetterBits == <<SIMPLECHESS_CASTLING_WHITE_KINGSIDE, SIMPLECHESS_CASTLING_WHITE_QUEENSIDE,
                        SIMPLECHESS_CASTLING_BLACK_KINGSIDE, SIMPLECHESS_CASTLING_BLACK_QUEENSIDE>>
validCastling(chars) ==
    \/ chars = <<"-">>
    \/ /\ chars # << >>
       /\ \A i \in 1..Len(chars) : \E k \in 1..4 : CastlingLetters[k] = chars[i]
       /\ \A i, j \in 1..Len(chars) : i # j => chars[i] # chars[j]
RECURSIVE SumBits(_)
SumBits(bits) ==
    IF bits = {} THEN 0 ELSE LET b == CHOOSE b \in bits : TRUE IN b + SumBits(bits \ {b})
castlingValue(chars) ==
    SumBits({CastlingLetterBits[k] : k \in {k \in 1..4 : \E i \in 1..Len(chars) : chars[i] = CastlingLetters[k]}})

fileIndex(ch) == IF \E i \in 1..8 : Files[i] = ch THEN CHOOSE i \in 1..8 : Files[i] = ch ELSE 0
validSquareString(chars) ==
    /\ Len(chars) = 2
    /\ fileIndex(chars[1]) # 0
    /\ isDigit(chars[2]) /\ digitValue(chars[2]) \in 1..8
squareFromString(chars) == Sq(digitValue(chars[2]), fileIndex(chars[1]))

validFen(chars) ==
    LET fields == split(chars, " ")
    IN /\ Len(fields) = 6
       /\ validPlacement(fields[1])
       /\ fields[2] \in {<<"w">>, <<"b">>}
       /\ validCastling(fields[3])
       /\ (fields[4] = <<"-">> \/ validSquareString(fields[4]))
       /\ isNumber(fields[5])
       /\ isNumber(fields[6])

stageFromFen(chars) ==
    LET fields == split(chars, " ")
    IN GameStage(placementBoard(split(fields[1], "/")),
                 IF fields[2] = <<"w">> THEN White ELSE Black,
                 castlingValue(fields[3]),
                 IF fields[4] = <<"-">> THEN 0 ELSE squareFromString(fields[4]),
                 fromDecimal(fields[5]), fromDecimal(fields[6]), Nothing)

createGameFromFen(chars) ==
    IF ~validFen(chars) THEN Thrown(invalid_argument)
    ELSE LET stage == stageFromFen(chars)
         IN Returned(buildGame(<<stage>>, allAvailableMoves(stage), FALSE))


(***************************************************************************)
(* The C boundary: result codes, enumerations and plain structs.           *)
(***************************************************************************)
SIMPLECHESS_SUCCESS == 0
SIMPLECHESS_ERROR_INVALID_ARGUMENT == 1
SIMPLECHESS_ERROR_ILLEGAL_STATE == 2
SIMPLECHESS_ERROR_OUT_OF_MEMORY == 3
SIMPLECHESS_ERROR_UNKNOWN == 4

SIMPLECHESS_COLOR_WHITE == 0
SIMPLECHESS_COLOR_BLACK == 1

SIMPLECHESS_GAME_STATE_PLAYING == 0
SIMPLECHESS_GAME_STATE_DRAWN == 1
SIMPLECHESS_GAME_STATE_WHITE_WON == 2
SIMPLECHESS_GAME_STATE_BLACK_WON == 3

SIMPLECHESS_PIECE_TYPE_PAWN == 0
SIMPLECHESS_PIECE_TYPE_ROOK == 1
SIMPLECHESS_PIECE_TYPE_KNIGHT == 2
SIMPLECHESS_PIECE_TYPE_BISHOP == 3
SIMPLECHESS_PIECE_TYPE_QUEEN == 4
SIMPLECHESS_PIECE_TYPE_KING == 5

SIMPLECHESS_DRAW_REASON_STALEMATE == 0
SIMPLECHESS_DRAW_REASON_INSUFFICIENT_MATERIAL == 1
SIMPLECHESS_DRAW_REASON_OFFERED_AND_ACCEPTED == 2
SIMPLECHESS_DRAW_REASON_THREE_FOLD_REPETITION == 3
SIMPLECHESS_DRAW_REASON_FIVE_FOLD_REPETITION == 4
SIMPLECHESS_DRAW_REASON_FIFTY_MOVE_RULE == 5
SIMPLECHESS_DRAW_REASON_SEVENTY_FIVE_MOVE_RULE == 6

SIMPLECHESS_CHECK_TYPE_NO_CHECK == 0
SIMPLECHESS_CHECK_TYPE_CHECK == 1
SIMPLECHESS_CHECK_TYPE_CHECKMATE == 2

NULL == 0
\* Any non-null address: the manager handle and the caller's out-parameters.
ValidPointer == 1

cpp_to_c_color(color) ==
    IF color = White THEN SIMPLECHESS_COLOR_WHITE ELSE SIMPLECHESS_COLOR_BLACK

\* Faulty variant: every colour converts to White.
c_to_cpp_color_white(color) == White

c_to_cpp_color(color) == IF color = SIMPLECHESS_COLOR_WHITE THEN White ELSE Black

\* Faulty variant: a drawn game has no case of its own.
cpp_to_c_game_state_no_draw(state) ==
    CASE state = Playing -> SIMPLECHESS_GAME_STATE_PLAYING
      [] state = WhiteWon -> SIMPLECHESS_GAME_STATE_WHITE_WON
      [] state = BlackWon -> SIMPLECHESS_GAME_STATE_BLACK_WON
      [] OTHER -> SIMPLECHESS_GAME_STATE_PLAYING

cpp_to_c_game_state(state) ==
    CASE state = Playing -> SIMPLECHESS_GAME_STATE_PLAYING
      [] state = Drawn -> SIMPLECHESS_GAME_STATE_DRAWN
      [] state = WhiteWon -> SIMPLECHESS_GAME_STATE_WHITE_WON
      [] state = BlackWon -> SIMPLECHESS_GAME_STATE_BLACK_WON
      [] OTHER -> SIMPLECHESS_GAME_STATE_PLAYING

cpp_to_c_piece_type(type) ==
    CASE type = Pawn -> SIMPLECHESS_PIECE_TYPE_PAWN
      [] type = Rook -> SIMPLECHESS_PIECE_TYPE_ROOK
      [] type = Knight -> SIMPLECHESS_PIECE_TYPE_KNIGHT
      [] type = Bishop -> SIMPLECHESS_PIECE_TYPE_BISHOP
      [] type = Queen -> SIMPLECHESS_PIECE_TYPE_QUEEN
      [] type = King -> SIMPLECHESS_PIECE_TYPE_KING
      [] OTHER -> SIMPLECHESS_PIECE_TYPE_PAWN

\* Faulty variant: every piece type converts to a pawn.
c_to_cpp_piece_type_pawn(type) == Pawn

c_to_cpp_piece_type(type) ==
    CASE type = SIMPLECHESS_PIECE_TYPE_PAWN -> Pawn
      [] type = SIMPLECHESS_PIECE_TYPE_ROOK -> Rook
      [] type = SIMPLECHESS_PIECE_TYPE_KNIGHT -> Knight
      [] type = SIMPLECHESS_PIECE_TYPE_BISHOP -> Bishop
      [] type = SIMPLECHESS_PIECE_TYPE_QUEEN -> Queen
      [] type = SIMPLECHESS_PIECE_TYPE_KING -> King
      [] OTHER -> Pawn

\* Faulty variant: the two repetition reasons are exchanged.
cpp_to_c_draw_reason_swapped(reason) ==
    CASE reason = StaleMate -> SIMPLECHESS_DRAW_REASON_STALEMATE
      [] reason = InsufficientMaterial -> SIMPLECHESS_DRAW_REASON_INSUFFICIENT_MATERIAL
      [] reason = OfferedAndAccepted -> SIMPLECHESS_DRAW_REASON_OFFERED_AND_ACCEPTED
      [] reason = ThreeFoldRepetition -> SIMPLECHESS_DRAW_REASON_FIVE_FOLD_REPETITION
      [] reason = FiveFoldRepetition -> SIMPLECHESS_DRAW_REASON_THREE_FOLD_REPETITION
      [] reason = FiftyMoveRule -> SIMPLECHESS_DRAW_REASON_FIFTY_MOVE_RULE
      [] reason = SeventyFiveMoveRule -> SIMPLECHESS_DRAW_REASON_SEVENTY_FIVE_MOVE_RULE
      [] OTHER -> SIMPLECHESS_DRAW_REASON_STALEMATE

cpp_to_c_draw_reason(reason) ==
    CASE reason = StaleMate -> SIMPLECHESS_DRAW_REASON_STALEMATE
      [] reason = InsufficientMaterial -> SIMPLECHESS_DRAW_REASON_INSUFFICIENT_MATERIAL
      [] reason = OfferedAndAccepted -> SIMPLECHESS_DRAW_REASON_OFFERED_AND_ACCEPTED
      [] reason = ThreeFoldRepetition -> SIMPLECHESS_DRAW_REASON_THREE_FOLD_REPETITION
      [] reason = FiveFoldRepetition -> SIMPLECHESS_DRAW_REASON_FIVE_FOLD_REPETITION
      [] reason = FiftyMoveRule -> SIMPLECHESS_DRAW_REASON_FIFTY_MOVE_RULE
      [] reason = SeventyFiveMoveRule -> SIMPLECHESS_DRAW_REASON_SEVENTY_FIVE_MOVE_RULE
      [] OTHER -> SIMPLECHESS_DRAW_REASON_STALEMATE

cpp_to_c_square(square) == [rank |-> rank(square), file |-> file(square)]

UpperFiles == <<"A", "B", "C", "D", "E", "F", "G", "H">>
toLower(ch) ==
    IF \E i \in 1..8 : UpperFiles[i] = ch THEN Files[CHOOSE i \in 1..8 : UpperFiles[i] = ch]
    ELSE ch

\* Square::fromRankAndFile: throws outside the board, the file letter in
\* either case.
fromRankAndFile(r, f) ==
    IF isInsideBoundaries(r, fileIndex(toLower(f))) THEN Returned(Sq(r, fileIndex(toLower(f))))
    ELSE Thrown(invalid_argument)

c_to_cpp_square(square) == fromRankAndFile(square.rank, square.file)

cpp_to_c_piece(piece) ==
    [type |-> cpp_to_c_piece_type(piece.type), color |-> cpp_to_c_color(piece.color)]

c_to_cpp_piece(piece) == Piece(c_to_cpp_piece_type(piece.type), c_to_cpp_color(piece.color))

cpp_to_c_piece_move(move) ==
    [piece |-> cpp_to_c_piece(move.piece),
     src |-> cpp_to_c_square(move.src),
     dst |-> cpp_to_c_square(move.dst),
     is_promotion |-> move.promoted # None,
     promoted_type |-> IF move.promoted # None THEN cpp_to_c_piece_type(move.promoted)
                       ELSE SIMPLECHESS_PIECE_TYPE_PAWN]

\* PieceMove::pawnPromotion: only a pawn promotes, and only to a rook, a
\* knight, a bishop or a queen.
checkedPawnPromotion(piece, src, dst, promoted) ==
    IF piece.type # Pawn \/ promoted \notin PromotionTypes THEN Thrown(invalid_argument)
    ELSE Returned(pawnPromotion(piece, src, dst, promoted))

\* Faulty variant: is_promotion is ignored, every move is built as a regular
\* move.
c_to_cpp_piece_move_regular_only(move) ==
    LET src == c_to_cpp_square(move.src)
        dst == c_to_cpp_square(move.dst)
    IN IF src.exc # None THEN Thrown(src.exc)
       ELSE IF dst.exc # None THEN Thrown(dst.exc)
       ELSE Returned(regularMove(c_to_cpp_piece(move.piece), value(src.result),
                                 value(dst.result)))

c_to_cpp_piece_move(move) ==
    LET src == c_to_cpp_square(move.src)
        dst == c_to_cpp_square(move.dst)
    IN IF src.exc # None THEN Thrown(src.exc)
       ELSE IF dst.exc # None THEN Thrown(dst.exc)
       ELSE IF move.is_promotion
       THEN checkedPawnPromotion(c_to_cpp_piece(move.piece), value(src.result),
                                 value(dst.result), c_to_cpp_piece_type(move.promoted_type))
       ELSE Returned(regularMove(c_to_cpp_piece(move.piece), value(src.result),
                                 value(dst.result)))

\* Faulty variant: checkmate has no case of its own.
cpp_to_c_check_type_no_mate(check_type) ==
    CASE check_type = NoCheck -> SIMPLECHESS_CHECK_TYPE_NO_CHECK
      [] check_type = Check -> SIMPLECHESS_CHECK_TYPE_CHECK
      [] OTHER -> SIMPLECHESS_CHECK_TYPE_NO_CHECK

cpp_to_c_check_type(check_type) ==
    CASE check_type = NoCheck -> SIMPLECHESS_CHECK_TYPE_NO_CHECK
      [] check_type = Check -> SIMPLECHESS_CHECK_TYPE_CHECK
      [] check_type = CheckMate -> SIMPLECHESS_CHECK_TYPE_CHECKMATE
      [] OTHER -> SIMPLECHESS_CHECK_TYPE_NO_CHECK

\* Faulty variant: std::invalid_argument is caught with the illegal states.
handle_exception_logic_errors(exc) ==
    CASE exc = IllegalStateException -> SIMPLECHESS_ERROR_ILLEGAL_STATE
      [] exc = invalid_argument -> SIMPLECHESS_ERROR_ILLEGAL_STATE
      [] exc = out_of_range -> SIMPLECHESS_ERROR_INVALID_ARGUMENT
      [] exc = bad_alloc -> SIMPLECHESS_ERROR_OUT_OF_MEMORY
      [] OTHER -> SIMPLECHESS_ERROR_UNKNOWN

\* Faulty variant: every exception is reported as UNKNOWN.
handle_exception_all_unknown(exc) == SIMPLECHESS_ERROR_UNKNOWN

handle_exception(exc) ==
    CASE exc = IllegalStateException -> SIMPLECHESS_ERROR_ILLEGAL_STATE
      [] exc = invalid_argument -> SIMPLECHESS_ERROR_INVALID_ARGUMENT
      [] exc = out_of_range -> SIMPLECHESS_ERROR_INVALID_ARGUMENT
      [] exc = bad_alloc -> SIMPLECHESS_ERROR_OUT_OF_MEMORY
      [] OTHER -> SIMPLECHESS_ERROR_UNKNOWN

(***************************************************************************)
(* State: the games that live behind handles, and the last call made.      *)
(***************************************************************************)
VARIABLES heap, last, threads, written, copies
vars == <<heap, last, threads, written, copies>>

\* What a call leaves behind: its result code and, when it wrote one, the
\* value of its out-parameter.
Outcome(rc, out) == [rc |-> rc, out |-> out]
Failed(rc) == Outcome(rc, Nothing)
Succeeded(v) == Outcome(SIMPLECHESS_SUCCESS, Just(v))
\* try { ... return SUCCESS } catch (...) { return handle_exception() }
Completed(r) ==
    IF r.exc = None THEN Outcome(SIMPLECHESS_SUCCESS, r.result)
    ELSE Failed(handle_exception(r.exc))

simplechess_piece_move_regular(piece, src, dst) ==
    LET cpp_src == c_to_cpp_square(src)
        cpp_dst == c_to_cpp_square(dst)
    IN IF cpp_src.exc # None THEN Completed(cpp_src)
       ELSE IF cpp_dst.exc # None THEN Completed(cpp_dst)
       ELSE Succeeded(cpp_to_c_piece_move(regularMove(c_to_cpp_piece(piece),
                                                      value(cpp_src.result),
                                                      value(cpp_dst.result))))

\* Faulty variant: the piece and the promoted type are left to the library
\* to validate, after their conversion.
simplechess_piece_move_promotion_unvalidated(piece, src, dst, promoted_type) ==
    LET cpp_src == c_to_cpp_square(src)
        cpp_dst == c_to_cpp_square(dst)
    IN IF cpp_src.exc # None THEN Completed(cpp_src)
       ELSE IF cpp_dst.exc # None THEN Completed(cpp_dst)
       ELSE LET cpp_move == checkedPawnPromotion(c_to_cpp_piece(piece), value(cpp_src.result),
                                                 value(cpp_dst.result),
                                                 c_to_cpp_piece_type(promoted_type))
            IN IF cpp_move.exc # None THEN Completed(cpp_move)
               ELSE Succeeded(cpp_to_c_piece_move(value(cpp_move.result)))

\* The piece and the promoted type are validated before anything is
\* converted.
simplechess_piece_move_promotion(piece, src, dst, promoted_type) ==
    IF piece.type # SIMPLECHESS_PIECE_TYPE_PAWN THEN Failed(SIMPLECHESS_ERROR_INVALID_ARGUMENT)
    ELSE IF promoted_type \notin {SIMPLECHESS_PIECE_TYPE_ROOK, SIMPLECHESS_PIECE_TYPE_KNIGHT,
                                  SIMPLECHESS_PIECE_TYPE_BISHOP, SIMPLECHESS_PIECE_TYPE_QUEEN}
    THEN Failed(SIMPLECHESS_ERROR_INVALID_ARGUMENT)
    ELSE LET cpp_src == c_to_cpp_square(src)
             cpp_dst == c_to_cpp_square(dst)
         IN IF cpp_src.exc # None THEN Completed(cpp_src)
            ELSE IF cpp_dst.exc # None THEN Completed(cpp_dst)
            ELSE LET cpp_move == checkedPawnPromotion(c_to_cpp_piece(piece),
                                                      value(cpp_src.result),
                                                      value(cpp_dst.result),
                                                      c_to_cpp_piece_type(promoted_type))
                 IN IF cpp_move.exc # None THEN Completed(cpp_move)
                    ELSE Succeeded(cpp_to_c_piece_move(value(cpp_move.result)))

\* A buffer of fewer than three characters is refused before the square is
\* looked at.
simplechess_square_to_string(square, buffer_size) ==
    IF buffer_size < 3 THEN Failed(SIMPLECHESS_ERROR_INVALID_ARGUMENT)
    ELSE LET cpp_square == c_to_cpp_square(square)
         IN IF cpp_square.exc # None THEN Completed(cpp_square)
            ELSE IF Len(squareToString(value(cpp_square.result))) + 1 > buffer_size
            THEN Failed(SIMPLECHESS_ERROR_INVALID_ARGUMENT)
            ELSE Succeeded(squareToString(value(cpp_square.result)))

simplechess_create_new_game(manager, game) ==
    IF manager = NULL \/ game = NULL THEN Failed(SIMPLECHESS_ERROR_INVALID_ARGUMENT)
    ELSE Completed(createNewGame)

\* Faulty variant: the string is not read and the standard game is created.
simplechess_create_game_from_fen_standard(manager, chars, game) ==
    IF manager = NULL \/ game = NULL THEN Failed(SIMPLECHESS_ERROR_INVALID_ARGUMENT)
    ELSE Completed(createNewGame)

simplechess_create_game_from_fen(manager, chars, game) ==
    IF manager = NULL \/ game = NULL THEN Failed(SIMPLECHESS_ERROR_INVALID_ARGUMENT)
    ELSE Completed(createGameFromFen(chars))

simplechess_make_move(manager, input_game, move, offer_draw, result_game) ==
    IF manager = NULL \/ input_game = NULL \/ result_game = NULL
    THEN Failed(SIMPLECHESS_ERROR_INVALID_ARGUMENT)
    ELSE LET cpp_move == c_to_cpp_piece_move(move)
         IN IF cpp_move.exc # None THEN Completed(cpp_move)
            ELSE Completed(makeMove(heap[input_game], value(cpp_move.result), offer_draw))

simplechess_claim_draw(manager, input_game, result_game) ==
    IF manager = NULL \/ input_game = NULL \/ result_game = NULL
    THEN Failed(SIMPLECHESS_ERROR_INVALID_ARGUMENT)
    ELSE Completed(claimDraw(heap[input_game]))

simplechess_resign(manager, input_game, resigning_player, result_game) ==
    IF manager = NULL \/ input_game = NULL \/ result_game = NULL
    THEN Failed(SIMPLECHESS_ERROR_INVALID_ARGUMENT)
    ELSE Completed(resign(heap[input_game], c_to_cpp_color(resigning_player)))

\* The object behind a manager, stage, board or played-move handle: its kind
\* and the copy it holds.
Copy(kind, object) == [kind |-> kind, object |-> object]
Deleted(handle) == [c \in DOMAIN copies \ {handle} |-> copies[c]]

\* Faulty variant: what was taken from the stage goes with the stage.
simplechess_game_stage_destroy_parts(stage) ==
    IF stage = NULL THEN copies
    ELSE [c \in {c \in DOMAIN copies :
                    /\ c # stage
                    /\ copies[c].kind = "board" => copies[c].object # copies[stage].object.board
                    /\ copies[c].kind = "played_move" =>
                          <<copies[c].object>> # copies[stage].object.move} |->
             copies[c]]

\* delete static_cast<...*>(handle), unless the handle is NULL.
simplechess_game_manager_destroy(manager) == IF manager = NULL THEN copies ELSE Deleted(manager)
simplechess_game_stage_destroy(stage) == IF stage = NULL THEN copies ELSE Deleted(stage)
simplechess_played_move_destroy(move) == IF move = NULL THEN copies ELSE Deleted(move)
simplechess_board_destroy(board) == IF board = NULL THEN copies ELSE Deleted(board)

\* delete static_cast<simplechess::Game*>(game): the handle is gone, every
\* other game is left alone.
simplechess_game_destroy(game) ==
    IF game = NULL THEN heap ELSE [h \in DOMAIN heap \ {game} |-> heap[h]]

(***************************************************************************)
(* Queries on a game handle.  A stage, board or played-move handle holds   *)
(* a copy of the value, so the model passes the value itself.              *)
(***************************************************************************)
simplechess_game_get_state(game) ==
    IF game = NULL THEN Failed(SIMPLECHESS_ERROR_INVALID_ARGUMENT)
    ELSE Succeeded(cpp_to_c_game_state(heap[game].gameState))

\* Faulty variant: the reason is converted without asking the game whether
\* it was drawn.
simplechess_game_get_draw_reason_unchecked(game) ==
    IF game = NULL THEN Failed(SIMPLECHESS_ERROR_INVALID_ARGUMENT)
    ELSE Succeeded(cpp_to_c_draw_reason(heap[game].drawReason))

simplechess_game_get_draw_reason(game) ==
    IF game = NULL THEN Failed(SIMPLECHESS_ERROR_INVALID_ARGUMENT)
    ELSE LET r == drawReason(heap[game])
         IN IF r.exc # None THEN Completed(r)
            ELSE Succeeded(cpp_to_c_draw_reason(value(r.result)))

\* Faulty variant: the colour of the game is not read.
simplechess_game_get_active_color_white(game) ==
    IF game = NULL THEN Failed(SIMPLECHESS_ERROR_INVALID_ARGUMENT)
    ELSE Succeeded(SIMPLECHESS_COLOR_WHITE)

simplechess_game_get_active_color(game) ==
    IF game = NULL THEN Failed(SIMPLECHESS_ERROR_INVALID_ARGUMENT)
    ELSE Succeeded(cpp_to_c_color(activeColor(heap[game])))

\* Game::reasonToClaimDraw: an optional, empty when no draw can be claimed.
reasonToClaimDraw(game) ==
    IF game.reasonToClaimDraw = None THEN Nothing ELSE Just(game.reasonToClaimDraw)

\* can_claim is written first; reason is written only when a draw can be
\* claimed and the caller passed a place for it.
simplechess_game_can_claim_draw(game, can_claim, reason) ==
    IF game = NULL \/ can_claim = NULL THEN Failed(SIMPLECHESS_ERROR_INVALID_ARGUMENT)
    ELSE LET draw_reason == reasonToClaimDraw(heap[game])
         IN Succeeded([can_claim |-> has_value(draw_reason),
                       reason |-> IF has_value(draw_reason) /\ reason # NULL
                                  THEN Just(cpp_to_c_draw_reason(value(draw_reason)))
                                  ELSE Nothing])

simplechess_game_get_available_moves_count(game) ==
    IF game = NULL THEN Failed(SIMPLECHESS_ERROR_INVALID_ARGUMENT)
    ELSE Succeeded(Cardinality(heap[game].allAvailableMoves))

\* Faulty variant: the capacity of the array is not compared with the number
\* of moves.
simplechess_game_get_available_moves_unchecked(game, moves_size) ==
    IF game = NULL THEN Failed(SIMPLECHESS_ERROR_INVALID_ARGUMENT)
    ELSE Succeeded({cpp_to_c_piece_move(m) : m \in heap[game].allAvailableMoves})

\* The array the call fills is modelled by the set of its elements.
simplechess_game_get_available_moves(game, moves_size) ==
    IF game = NULL THEN Failed(SIMPLECHESS_ERROR_INVALID_ARGUMENT)
    ELSE IF moves_size < Cardinality(heap[game].allAvailableMoves)
    THEN Failed(SIMPLECHESS_ERROR_INVALID_ARGUMENT)
    ELSE Succeeded({cpp_to_c_piece_move(m) : m \in heap[game].allAvailableMoves})

\* Game::availableMovesForPiece: the available moves of the game that start
\* on the square.
gameAvailableMovesForPiece(game, square) == {m \in game.allAvailableMoves : m.src = square}

\* Faulty variant: the square is converted but the moves are not filtered.
simplechess_game_get_moves_for_piece_count_unfiltered(game, square) ==
    IF game = NULL THEN Failed(SIMPLECHESS_ERROR_INVALID_ARGUMENT)
    ELSE LET cpp_square == c_to_cpp_square(square)
         IN IF cpp_square.exc # None THEN Completed(cpp_square)
            ELSE Succeeded(Cardinality(heap[game].allAvailableMoves))

simplechess_game_get_moves_for_piece_count(game, square) ==
    IF game = NULL THEN Failed(SIMPLECHESS_ERROR_INVALID_ARGUMENT)
    ELSE LET cpp_square == c_to_cpp_square(square)
         IN IF cpp_square.exc # None THEN Completed(cpp_square)
            ELSE Succeeded(Cardinality(gameAvailableMovesForPiece(heap[game],
                                                                  value(cpp_square.result))))

\* Faulty variant: the square is converted but the moves are not filtered.
simplechess_game_get_moves_for_piece_unfiltered(game, square, moves_size) ==
    IF game = NULL THEN Failed(SIMPLECHESS_ERROR_INVALID_ARGUMENT)
    ELSE LET cpp_square == c_to_cpp_square(square)
         IN IF cpp_square.exc # None THEN Completed(cpp_square)
            ELSE Succeeded({cpp_to_c_piece_move(m) : m \in heap[game].allAvailableMoves})

simplechess_game_get_moves_for_piece(game, square, moves_size) ==
    IF game = NULL THEN Failed(SIMPLECHESS_ERROR_INVALID_ARGUMENT)
    ELSE LET cpp_square == c_to_cpp_square(square)
         IN IF cpp_square.exc # None THEN Completed(cpp_square)
            ELSE LET cpp_moves == gameAvailableMovesForPiece(heap[game], value(cpp_square.result))
                 IN IF moves_size < Cardinality(cpp_moves)
                    THEN Failed(SIMPLECHESS_ERROR_INVALID_ARGUMENT)
                    ELSE Succeeded({cpp_to_c_piece_move(m) : m \in cpp_moves})

\* Faulty variant: the moves are counted, the initial position is not.
simplechess_game_get_history_length_moves(game) ==
    IF game = NULL THEN Failed(SIMPLECHESS_ERROR_INVALID_ARGUMENT)
    ELSE Succeeded(Len(heap[game].history) - 1)

simplechess_game_get_history_length(game) ==
    IF game = NULL THEN Failed(SIMPLECHESS_ERROR_INVALID_ARGUMENT)
    ELSE Succeeded(Len(heap[game].history))

\* Faulty variant: an index past the end gives the last stage.
simplechess_game_get_stage_at_clamped(game, index) ==
    IF game = NULL THEN Failed(SIMPLECHESS_ERROR_INVALID_ARGUMENT)
    ELSE IF index >= Len(heap[game].history) THEN Succeeded(currentStage(heap[game]))
    ELSE Succeeded(heap[game].history[index + 1])

\* Faulty variant: the index is checked but the current stage is returned.
simplechess_game_get_stage_at_current(game, index) ==
    IF game = NULL THEN Failed(SIMPLECHESS_ERROR_INVALID_ARGUMENT)
    ELSE IF index >= Len(heap[game].history) THEN Failed(SIMPLECHESS_ERROR_INVALID_ARGUMENT)
    ELSE Succeeded(currentStage(heap[game]))

simplechess_game_get_stage_at(game, index) ==
    IF game = NULL THEN Failed(SIMPLECHESS_ERROR_INVALID_ARGUMENT)
    ELSE IF index >= Len(heap[game].history) THEN Failed(SIMPLECHESS_ERROR_INVALID_ARGUMENT)
    ELSE Succeeded(heap[game].history[index + 1])

simplechess_game_get_current_stage(game) ==
    IF game = NULL THEN Failed(SIMPLECHESS_ERROR_INVALID_ARGUMENT)
    ELSE Succeeded(currentStage(heap[game]))

simplechess_stage_get_board(stage) == Succeeded(stage.board)

\* Faulty variant: has_move is set whether or not the stage has a move.
simplechess_stage_get_move_always(stage) ==
    Succeeded([has_move |-> TRUE, move |-> stage.move])

\* has_move, and the played-move handle: absent stands for nullptr.
simplechess_stage_get_move(stage) ==
    Succeeded([has_move |-> has_value(stage.move), move |-> stage.move])

\* Faulty variant: the colour of the stage is not read.
simplechess_stage_get_active_color_white(stage) == Succeeded(SIMPLECHESS_COLOR_WHITE)

simplechess_stage_get_active_color(stage) == Succeeded(cpp_to_c_color(stage.activeColor))

\* Faulty variant: all four rights are reported for every stage.
simplechess_stage_get_castling_rights_all(stage) ==
    Succeeded(SumBits(CastlingBits))

simplechess_stage_get_castling_rights(stage) == Succeeded(stage.castlingRights)

\* The number of values of a uint16_t, and the value an assignment to one
\* stores.
Uint16Values == 65536
uint16_t(v) == v % Uint16Values

simplechess_stage_get_halfmove_clock(stage) ==
    Succeeded(uint16_t(stage.halfMovesSinceLastCaptureOrPawnAdvance))

simplechess_stage_get_fullmove_counter(stage) == Succeeded(uint16_t(stage.fullMoveCounter))

\* The buffer holds the string and its terminator, or the call fails.
simplechess_stage_get_fen(stage, buffer_size) ==
    IF Len(fen(stage)) + 1 > buffer_size THEN Failed(SIMPLECHESS_ERROR_INVALID_ARGUMENT)
    ELSE Succeeded(fen(stage))

\* The buffer holds the string and its terminator, or the call fails.
simplechess_played_move_get_algebraic_notation(move, buffer_size) ==
    IF Len(move.inAlgebraicNotation) + 1 > buffer_size
    THEN Failed(SIMPLECHESS_ERROR_INVALID_ARGUMENT)
    ELSE Succeeded(move.inAlgebraicNotation)

simplechess_played_move_get_piece_move(move) == Succeeded(cpp_to_c_piece_move(move.pieceMove))

\* has_capture, and the piece when there is one (left unwritten otherwise).
simplechess_played_move_get_captured_piece(move) ==
    Succeeded([has_capture |-> move.capturedPiece # NoPiece,
               piece |-> IF move.capturedPiece # NoPiece
                         THEN Just(cpp_to_c_piece(move.capturedPiece)) ELSE Nothing])

simplechess_played_move_get_check_type(move) == Succeeded(cpp_to_c_check_type(move.checkType))

\* Faulty variant: the offer of the move is not read.
simplechess_played_move_is_draw_offered_never(move) == Succeeded(FALSE)

simplechess_played_move_is_draw_offered(move) == Succeeded(move.isDrawOffered)

simplechess_board_get_piece_at(board, square) ==
    LET cpp_square == c_to_cpp_square(square)
    IN IF cpp_square.exc # None THEN Completed(cpp_square)
       ELSE LET piece == pieceAt(board, value(cpp_square.result))
            IN Succeeded([has_piece |-> piece # NoPiece,
                          piece |-> IF piece # NoPiece THEN Just(cpp_to_c_piece(piece))
                                    ELSE Nothing])

simplechess_board_get_occupied_squares_count(board) ==
    Succeeded(Cardinality(occupiedSquares(board)))

cpp_to_c_square_and_piece(square, piece) ==
    [square |-> cpp_to_c_square(square), piece |-> cpp_to_c_piece(piece)]

simplechess_board_get_occupied_squares(board, array_size) ==
    IF array_size < Cardinality(occupiedSquares(board))
    THEN Failed(SIMPLECHESS_ERROR_INVALID_ARGUMENT)
    ELSE Succeeded({cpp_to_c_square_and_piece(pair[1], pair[2]) : pair \in occupiedSquares(board)})

\* Faulty variant: the fullmove counter is returned for the halfmove clock.
simplechess_game_get_halfmove_clock_as_fullmove(game) ==
    IF game = NULL THEN Failed(SIMPLECHESS_ERROR_INVALID_ARGUMENT)
    ELSE Succeeded(currentStage(heap[game]).fullMoveCounter)

simplechess_game_get_halfmove_clock(game) ==
    IF game = NULL THEN Failed(SIMPLECHESS_ERROR_INVALID_ARGUMENT)
    ELSE Succeeded(uint16_t(currentStage(heap[game]).halfMovesSinceLastCaptureOrPawnAdvance))

simplechess_game_get_fullmove_counter(game) ==
    IF game = NULL THEN Failed(SIMPLECHESS_ERROR_INVALID_ARGUMENT)
    ELSE Succeeded(uint16_t(currentStage(heap[game]).fullMoveCounter))

simplechess_game_get_current_fen(game, buffer_size) ==
    IF game = NULL THEN Failed(SIMPLECHESS_ERROR_INVALID_ARGUMENT)
    ELSE IF Len(fen(currentStage(heap[game]))) + 1 > buffer_size
    THEN Failed(SIMPLECHESS_ERROR_INVALID_ARGUMENT)
    ELSE Succeeded(fen(currentStage(heap[game])))

simplechess_game_get_castling_rights(game) ==
    IF game = NULL THEN Failed(SIMPLECHESS_ERROR_INVALID_ARGUMENT)
    ELSE Succeeded(currentStage(heap[game]).castlingRights)

simplechess_game_get_current_board(game) ==
    IF game = NULL THEN Failed(SIMPLECHESS_ERROR_INVALID_ARGUMENT)
    ELSE Succeeded(currentStage(heap[game]).board)

(***************************************************************************)
(* Inputs.                                                                 *)
(***************************************************************************)
CSquare(r, f) == [rank |-> r, file |-> f]
CPiece(t, c) == [type |-> t, color |-> c]
\* A move as simplechess_piece_move_regular builds it.
CRegularMove(piece, src, dst) ==
    [piece |-> piece, src |-> src, dst |-> dst, is_promotion |-> FALSE,
     promoted_type |-> SIMPLECHESS_PIECE_TYPE_PAWN]

KingE1E3 ==
    CRegularMove(CPiece(SIMPLECHESS_PIECE_TYPE_KING, SIMPLECHESS_COLOR_WHITE),
                 CSquare(1, "e"), CSquare(3, "e"))
BlackPawnE7E5 ==
    CRegularMove(CPiece(SIMPLECHESS_PIECE_TYPE_PAWN, SIMPLECHESS_COLOR_BLACK),
                 CSquare(7, "e"), CSquare(5, "e"))
PawnOffBoard ==
    CRegularMove(CPiece(SIMPLECHESS_PIECE_TYPE_PAWN, SIMPLECHESS_COLOR_WHITE),
                 CSquare(2, "e"), CSquare(9, "e"))
OtherMoveInputs == {KingE1E3, BlackPawnE7E5, PawnOffBoard}

\* Every move legal in the game's current position, as the library reports
\* it for a game in play.
LegalMoveInputs(game) ==
    {cpp_to_c_piece_move(m) :
        m \in IF game.gameState = Playing THEN game.allAvailableMoves
              ELSE allAvailableMoves(currentStage(game))}

StartFen ==
    \* rnbqkbnr/pppppppp/8/8/8/8/PPPPPPPP/RNBQKBNR w KQkq - 0 1
    <<"r", "n", "b", "q", "k", "b", "n", "r", "/", "p", "p", "p", "p", "p", "p", "p", "p", "/", "8", "/", "8", "/", "8", "/", "8", "/", "P", "P", "P", "P", "P", "P", "P", "P", "/", "R", "N", "B", "Q", "K", "B", "N", "R", " ", "w", " ", "K", "Q", "k", "q", " ", "-", " ", "0", " ", "1">>
CastlingFen ==
    \* r3k2r/8/8/8/8/8/8/R3K2R w KQkq - 0 1
    <<"r", "3", "k", "2", "r", "/", "8", "/", "8", "/", "8", "/", "8", "/", "8", "/", "8", "/", "R", "3", "K", "2", "R", " ", "w", " ", "K", "Q", "k", "q", " ", "-", " ", "0", " ", "1">>
PawnsFen ==
    \* 4k3/8/8/8/3Pp3/8/p7/4K3 b - d3 0 3
    <<"4", "k", "3", "/", "8", "/", "8", "/", "8", "/", "3", "P", "p", "3", "/", "8", "/", "p", "7", "/", "4", "K", "3", " ", "b", " ", "-", " ", "d", "3", " ", "0", " ", "3">>
MatingFen ==
    \* 7k/5Q2/6K1/8/8/8/8/8 w - - 0 1
    <<"7", "k", "/", "5", "Q", "2", "/", "6", "K", "1", "/", "8", "/", "8", "/", "8", "/", "8", "/", "8", " ", "w", " ", "-", " ", "-", " ", "0", " ", "1">>
PinFen ==
    \* 4r1k1/8/8/8/8/8/4R3/4K3 w - - 100 90
    <<"4", "r", "1", "k", "1", "/", "8", "/", "8", "/", "8", "/", "8", "/", "8", "/", "4", "R", "3", "/", "4", "K", "3", " ", "w", " ", "-", " ", "-", " ", "1", "0", "0", " ", "9", "0">>
LoneKingFen ==
    \* 8/8/8/8/8/8/1p1k4/1K6 w - - 0 1
    <<"8", "/", "8", "/", "8", "/", "8", "/", "8", "/", "8", "/", "1", "p", "1", "k", "4", "/", "1", "K", "6", " ", "w", " ", "-", " ", "-", " ", "0", " ", "1">>
RooksFen ==
    \* r3k3/8/8/8/8/8/8/R3K3 w Qq - 0 1
    <<"r", "3", "k", "3", "/", "8", "/", "8", "/", "8", "/", "8", "/", "8", "/", "8", "/", "R", "3", "K", "3", " ", "w", " ", "Q", "q", " ", "-", " ", "0", " ", "1">>
\* The start position late in a game: 98 and 148 halfmoves since the last
\* capture or pawn advance.
Clock98Fen == SubSeq(StartFen, 1, Len(StartFen) - 3) \o <<"9", "8", " ", "6", "0">>
Clock148Fen == SubSeq(StartFen, 1, Len(StartFen) - 3) \o <<"1", "4", "8", " ", "8", "0">>
LastMoveNumberFen ==
    \* 7k/7p/8/8/8/8/8/K7 b - - 0 65535
    <<"7", "k", "/", "7", "p", "/", "8", "/", "8", "/", "8", "/", "8", "/", "8", "/", "K", "7", " ", "b", " ", "-", " ", "-", " ", "0", " ", "6", "5", "5", "3", "5">>
FenInputs == {CastlingFen, PawnsFen, MatingFen, PinFen, LoneKingFen, LastMoveNumberFen}

\* Strings that are no FEN: the empty string, a word, the placement cut
\* after seven ranks, the same with the other five fields, a rank of nine
\* squares, two white kings, and an active colour x.
EmptyFen == << >>
WordFen == <<"i", "n", "v", "a", "l", "i", "d">>
IncompleteFen == SubSeq(StartFen, 1, 34)
SevenRanksFen == IncompleteFen \o SubSeq(StartFen, 44, Len(StartFen))
NineSquaresFen == SubSeq(StartFen, 1, 18) \o <<"9">> \o SubSeq(StartFen, 20, Len(StartFen))
TwoKingsFen == SubSeq(StartFen, 1, 38) \o <<"K">> \o SubSeq(StartFen, 40, Len(StartFen))
ColourXFen == SubSeq(StartFen, 1, 44) \o <<"x">> \o SubSeq(StartFen, 46, Len(StartFen))
MalformedFens ==
    {EmptyFen, WordFen, IncompleteFen, SevenRanksFen, NineSquaresFen, TwoKingsFen, ColourXFen}

LineFens == {Clock98Fen, Clock148Fen, LoneKingFen}

KnightMove(color, r1, f1, r2, f2) ==
    CRegularMove(CPiece(SIMPLECHESS_PIECE_TYPE_KNIGHT, color), CSquare(r1, f1), CSquare(r2, f2))
\* The knights leave and come home, and the white king takes the pawn on b2.
LineMoves ==
    {KnightMove(SIMPLECHESS_COLOR_WHITE, 1, "g", 3, "f"),
     KnightMove(SIMPLECHESS_COLOR_BLACK, 8, "g", 6, "f"),
     KnightMove(SIMPLECHESS_COLOR_WHITE, 3, "f", 1, "g"),
     KnightMove(SIMPLECHESS_COLOR_BLACK, 6, "f", 8, "g"),
     CRegularMove(CPiece(SIMPLECHESS_PIECE_TYPE_KING, SIMPLECHESS_COLOR_WHITE),
                  CSquare(1, "b"), CSquare(2, "b"))}
\* The white king steps aside and White offers a draw.
OfferedMoves ==
    {CRegularMove(CPiece(SIMPLECHESS_PIECE_TYPE_KING, SIMPLECHESS_COLOR_WHITE),
                  CSquare(1, "b"), CSquare(2, "a"))}

\* Bound on the number of live game handles.
MaxHandles == 2
\* Bound on the number of live game handles when histories are grown.
MaxHistoryHandles == 3

NoMove == CRegularMove(CPiece(0, 0), CSquare(0, "-"), CSquare(0, "-"))
Call(op, game, move, offer_draw, color, chars, rc, result_game) ==
    [op |-> op, game |-> game, move |-> move, offer_draw |-> offer_draw, color |-> color,
     fen |-> chars, rc |-> rc, result_game |-> result_game]

canAllocate(limit) == Cardinality(DOMAIN heap) < limit
fresh ==
    CHOOSE h \in 1..(Cardinality(DOMAIN heap) + 1) :
        /\ h \notin DOMAIN heap
        /\ \A k \in 1..(h - 1) : k \in DOMAIN heap

\* *result_game = new simplechess::Game(...): the game lives behind a new
\* handle, every other handle is left alone.
\* Faulty variant: the result is also written over the oldest game.
AllocateOverOldest(out) ==
    IF has_value(out)
    THEN [h \in DOMAIN heap \cup {fresh} |->
             IF h \in DOMAIN heap /\ h # 1 THEN heap[h] ELSE value(out)]
    ELSE heap
\* Faulty variant: the result is written over the games that exist.
AllocateInPlace(out) ==
    IF has_value(out) THEN [h \in DOMAIN heap \cup {fresh} |-> value(out)] ELSE heap

Allocate(out) == IF has_value(out) THEN heap @@ (fresh :> value(out)) ELSE heap
Written(out) == IF has_value(out) THEN fresh ELSE NULL

\* The two output parameters of a query that reports a flag and a value, as
\* the call left them: absent stands for not written.
Outputs(flag, second) == [flag |-> flag, second |-> second]
NoOutput == Outputs(Nothing, Nothing)
\* new T(...): the object, or std::bad_alloc.
AllocationOutcomes == {"allocated", bad_alloc}
operator_new(object, outcome) ==
    IF outcome = bad_alloc THEN Thrown(bad_alloc) ELSE Returned(object)

\* The threads of the caller, and a thread that is in no call.
Threads == {1, 2}
NoCall == Call("none", NULL, NoMove, FALSE, 0, << >>, SIMPLECHESS_SUCCESS, NULL)
\* pc: where the thread is in its call; alone: what the call would return if
\* it ran with no other thread, taken when the call is entered; handles: the
\* number of games alive at that moment; computed: what the thread has read so
\* far; result: what the call returned.
Thread(pc, call, alone, handles, computed, result) ==
    [pc |-> pc, call |-> call, alone |-> alone, handles |-> handles, computed |-> computed,
     result |-> result]
Idle == Thread("idle", NoCall, Failed(SIMPLECHESS_SUCCESS), 0, Failed(SIMPLECHESS_SUCCESS),
               Failed(SIMPLECHESS_SUCCESS))

Init ==
    /\ heap = << >>
    /\ last = Call("none", NULL, NoMove, FALSE, 0, << >>, SIMPLECHESS_SUCCESS, NULL)
    /\ threads = [t \in Threads |-> Idle]
    /\ written = NoOutput
    /\ copies = << >>

create_new_game(limit) ==
    /\ UNCHANGED <<threads, written, copies>>
    /\ canAllocate(limit)
    /\ LET r == simplechess_create_new_game(ValidPointer, ValidPointer)
       IN /\ heap' = Allocate(r.out)
          /\ last' = Call("create_new_game", NULL, NoMove, FALSE, 0, << >>, r.rc, Written(r.out))

create_game_from_fen(limit, fens) ==
    /\ UNCHANGED <<threads, written, copies>>
    /\ canAllocate(limit)
    /\ \E chars \in fens :
          LET r == simplechess_create_game_from_fen(ValidPointer, chars, ValidPointer)
          IN /\ heap' = Allocate(r.out)
             /\ last' = Call("create_game_from_fen", NULL, NoMove, FALSE, 0, chars, r.rc,
                             Written(r.out))

\* The moves tried on a game are the legal ones and the given others; a call
\* that would succeed is made only while a handle is left.
make_move(limit, others, offers) ==
    /\ UNCHANGED <<threads, written, copies>>
    /\ \E h \in DOMAIN heap :
         LET tried == IF canAllocate(limit) \/ heap[h].gameState # Playing
                      THEN LegalMoveInputs(heap[h]) \cup others
                      ELSE others \ LegalMoveInputs(heap[h])
         IN \E move \in tried, offer_draw \in offers :
              LET r == simplechess_make_move(ValidPointer, h, move, offer_draw, ValidPointer)
              IN /\ has_value(r.out) => canAllocate(limit)
                 /\ heap' = Allocate(r.out)
                 /\ last' = Call("make_move", h, move, offer_draw, 0, << >>, r.rc, Written(r.out))

claim_draw(limit) ==
    /\ UNCHANGED <<threads, written, copies>>
    /\ \E h \in DOMAIN heap :
           LET r == simplechess_claim_draw(ValidPointer, h, ValidPointer)
           IN /\ has_value(r.out) => canAllocate(limit)
              /\ heap' = Allocate(r.out)
              /\ last' = Call("claim_draw", h, NoMove, FALSE, 0, << >>, r.rc, Written(r.out))

resign_game(limit) ==
    /\ UNCHANGED <<threads, written, copies>>
    /\ \E h \in DOMAIN heap,
          resigning_player \in {SIMPLECHESS_COLOR_WHITE, SIMPLECHESS_COLOR_BLACK} :
           LET r == simplechess_resign(ValidPointer, h, resigning_player, ValidPointer)
           IN /\ has_value(r.out) => canAllocate(limit)
              /\ heap' = Allocate(r.out)
              /\ last' = Call("resign", h, NoMove, FALSE, resigning_player, << >>, r.rc,
                              Written(r.out))

CreateNewGame == create_new_game(MaxHandles)
CreateGameFromFen == create_game_from_fen(MaxHandles, FenInputs)
MakeMove == make_move(MaxHandles, OtherMoveInputs, BOOLEAN)
ClaimDraw == claim_draw(MaxHandles)
Resign == resign_game(MaxHandles)

Next == CreateNewGame \/ CreateGameFromFen \/ MakeMove \/ ClaimDraw \/ Resign

Spec == Init /\ [][Next]_vars

\* Histories of three stages: one position with few pieces, legal moves only.
SetUpRooks == create_game_from_fen(MaxHistoryHandles, {RooksFen})
PlayMove == make_move(MaxHistoryHandles, {}, BOOLEAN)
AcceptDraw == claim_draw(MaxHistoryHandles)
GiveUp == resign_game(MaxHistoryHandles)

HistoryNext == SetUpRooks \/ PlayMove \/ AcceptDraw \/ GiveUp

HistorySpec == Init /\ [][HistoryNext]_vars

\* A move from a list: the plain ones without a draw offer, the offered ones
\* with one.
make_listed_move(limit, plain, offered) ==
    /\ UNCHANGED <<threads, written, copies>>
    /\ \E h \in DOMAIN heap, offer_draw \in BOOLEAN :
         \E move \in IF offer_draw THEN offered ELSE plain :
            LET r == simplechess_make_move(ValidPointer, h, move, offer_draw, ValidPointer)
            IN /\ has_value(r.out) => canAllocate(limit)
               /\ heap' = Allocate(r.out)
               /\ last' = Call("make_move", h, move, offer_draw, 0, << >>, r.rc, Written(r.out))

game_destroy ==
    /\ UNCHANGED <<threads, written, copies>>
    /\ \E h \in DOMAIN heap :
          /\ heap' = simplechess_game_destroy(h)
          /\ last' = Call("game_destroy", h, NoMove, FALSE, 0, << >>, SIMPLECHESS_SUCCESS, NULL)

\* Long games: one line of knight moves played from the start position, the
\* game that was moved on destroyed to make room for the next.
StartLine == create_new_game(MaxHandles)
SetUpLine == create_game_from_fen(MaxHandles, LineFens)
PlayLine == make_listed_move(MaxHandles, LineMoves, OfferedMoves)
ClaimOnLine == claim_draw(MaxHandles)
Destroy == game_destroy

LineNext == StartLine \/ SetUpLine \/ PlayLine \/ ClaimOnLine \/ Destroy

LineSpec == Init /\ [][LineNext]_vars

\* Games from strings, good and bad.
CreateFromText == create_game_from_fen(MaxHandles, FenInputs \cup MalformedFens)

FenNext == CreateFromText \/ Destroy

FenSpec == Init /\ [][FenNext]_vars

\* Moves built from pieces and squares.  The piece types tried are those of
\* the enumeration and the first value after it; the squares are e7, e8 and
\* two that are not on the board.
PieceTypeInputs == SIMPLECHESS_PIECE_TYPE_PAWN..(SIMPLECHESS_PIECE_TYPE_KING + 1)
PieceInputs ==
    {CPiece(t, c) : t \in PieceTypeInputs,
                    c \in {SIMPLECHESS_COLOR_WHITE, SIMPLECHESS_COLOR_BLACK}}
SquareInputs == {CSquare(7, "e"), CSquare(8, "e"), CSquare(9, "e"), CSquare(8, "i")}
\* The arguments of a call that builds a move, in the shape of a move.
Requested(piece, src, dst, is_promotion, promoted_type) ==
    [piece |-> piece, src |-> src, dst |-> dst, is_promotion |-> is_promotion,
     promoted_type |-> promoted_type]

piece_move_regular ==
    /\ UNCHANGED <<threads, written, copies>>
    /\ \E piece \in PieceInputs, src \in SquareInputs, dst \in SquareInputs :
          LET r == simplechess_piece_move_regular(piece, src, dst)
          IN /\ last' = Call("piece_move_regular", NULL,
                              Requested(piece, src, dst, FALSE, SIMPLECHESS_PIECE_TYPE_PAWN),
                              FALSE, 0, << >>, r.rc, NULL)
             /\ UNCHANGED heap

piece_move_promotion ==
    /\ UNCHANGED <<threads, written, copies>>
    /\ \E piece \in PieceInputs, src \in SquareInputs, dst \in SquareInputs,
          promoted_type \in PieceTypeInputs :
          LET r == simplechess_piece_move_promotion(piece, src, dst, promoted_type)
          IN /\ last' = Call("piece_move_promotion", NULL,
                              Requested(piece, src, dst, TRUE, promoted_type),
                              FALSE, 0, << >>, r.rc, NULL)
             /\ UNCHANGED heap

BuildNext == piece_move_regular \/ piece_move_promotion

BuildSpec == Init /\ [][BuildNext]_vars

\* Two threads share the games: each call reads the input game, computes, and
\* then allocates its result, and the steps of the threads interleave.
MaxThreadHandles == 3
ThreadMoves ==
    {CRegularMove(CPiece(SIMPLECHESS_PIECE_TYPE_KING, SIMPLECHESS_COLOR_WHITE),
                  CSquare(1, "b"), CSquare(2, "b")),
     CRegularMove(CPiece(SIMPLECHESS_PIECE_TYPE_KING, SIMPLECHESS_COLOR_BLACK),
                  CSquare(2, "d"), CSquare(3, "d")),
     KnightMove(SIMPLECHESS_COLOR_WHITE, 1, "g", 3, "f")}
ThreadCalls(h) ==
    {Call("make_move", h, move, FALSE, 0, << >>, SIMPLECHESS_SUCCESS, NULL) :
        move \in ThreadMoves}
    \cup {Call(op, h, NoMove, FALSE, SIMPLECHESS_COLOR_WHITE, << >>, SIMPLECHESS_SUCCESS, NULL) :
            op \in {"claim_draw", "resign", "query"}}

\* The two halves of a query: a thread reads them in two steps.
FirstRead(h) == <<simplechess_game_get_state(h), simplechess_game_get_history_length(h)>>
SecondRead(h) ==
    <<simplechess_game_get_current_fen(h, 100), simplechess_game_get_available_moves_count(h)>>

\* The manager call of a thread, up to the allocation of its result.
ManagerCall(call) ==
    CASE call.op = "make_move" ->
            simplechess_make_move(ValidPointer, call.game, call.move, call.offer_draw,
                                  ValidPointer)
      [] call.op = "claim_draw" -> simplechess_claim_draw(ValidPointer, call.game, ValidPointer)
      [] call.op = "resign" ->
            simplechess_resign(ValidPointer, call.game, call.color, ValidPointer)
\* The call run with no other thread.
RunAlone(call) ==
    IF call.op = "query" THEN Succeeded(FirstRead(call.game) \o SecondRead(call.game))
    ELSE ManagerCall(call)

thread_enter(t) ==
    /\ threads[t].pc = "idle"
    /\ \E h \in DOMAIN heap :
         \E call \in ThreadCalls(h) :
            threads' = [threads EXCEPT ![t] =
                           Thread("entered", call, RunAlone(call), Cardinality(DOMAIN heap),
                                  Failed(SIMPLECHESS_SUCCESS), Failed(SIMPLECHESS_SUCCESS))]
    /\ UNCHANGED <<heap, last, written, copies>>

\* The thread reads the input game: mgr->makeMove(*game, ...) and the like,
\* or the first getters of a query.
thread_read(t) ==
    /\ threads[t].pc = "entered"
    /\ LET call == threads[t].call
           computed == IF call.op = "query" THEN Succeeded(FirstRead(call.game))
                       ELSE ManagerCall(call)
       IN threads' = [threads EXCEPT ![t].pc = "read", ![t].computed = computed]
    /\ UNCHANGED <<heap, last, written, copies>>

\* The thread allocates the game it computed and returns, or makes the last
\* getters of its query and returns.
thread_return(t) ==
    /\ threads[t].pc = "read"
    /\ LET call == threads[t].call
           computed == threads[t].computed
       IN IF call.op = "query"
          THEN /\ threads' = [threads EXCEPT ![t].pc = "returned",
                                  ![t].result = Succeeded(value(computed.out) \o SecondRead(call.game))]
               /\ UNCHANGED heap
          ELSE /\ has_value(computed.out) => canAllocate(MaxThreadHandles)
               /\ heap' = Allocate(computed.out)
               /\ threads' = [threads EXCEPT ![t].pc = "returned",
                                  ![t].result =
                                      Outcome(computed.rc,
                                              IF has_value(computed.out) THEN Just(fresh)
                                              ELSE Nothing)]
    /\ UNCHANGED <<last, written, copies>>

thread_leave(t) ==
    /\ threads[t].pc = "returned"
    /\ threads' = [threads EXCEPT ![t] = Idle]
    /\ UNCHANGED <<heap, last, written, copies>>

ShareGame == create_game_from_fen(1, {LoneKingFen})
Enter == \E t \in Threads : thread_enter(t)
Read == \E t \in Threads : thread_read(t)
Return == \E t \in Threads : thread_return(t)
Leave == \E t \in Threads : thread_leave(t)

ThreadNext == ShareGame \/ Enter \/ Read \/ Return \/ Leave

ThreadSpec == Init /\ [][ThreadNext]_vars

\* Queries with two output parameters, called with and without places for
\* them, the allocation of the played move succeeding or not.
MaxOutputHandles == 2
Pointers == {NULL, ValidPointer}

\* simplechess_stage_get_move: has_move is written, then the played move is
\* allocated and its handle written.
stage_get_move ==
    /\ \E h \in DOMAIN heap, move \in Pointers, has_move \in Pointers,
          outcome \in AllocationOutcomes :
         \* index 0 stands for a NULL stage handle
         \E index \in 0..Len(heap[h].history) :
            LET refused == index = 0 \/ move = NULL \/ has_move = NULL
                played_move == IF index = 0 THEN Nothing ELSE heap[h].history[index].move
                allocated == operator_new(played_move, outcome)
                rc == IF refused THEN SIMPLECHESS_ERROR_INVALID_ARGUMENT
                      ELSE IF has_value(played_move) /\ allocated.exc # None
                      THEN handle_exception(allocated.exc)
                      ELSE SIMPLECHESS_SUCCESS
                outputs == IF refused THEN NoOutput
                           ELSE IF ~has_value(played_move) THEN Outputs(Just(FALSE), Just(Nothing))
                           ELSE IF allocated.exc # None THEN Outputs(Just(TRUE), Nothing)
                           ELSE Outputs(Just(TRUE), Just(played_move))
            IN /\ rc = SIMPLECHESS_SUCCESS =>
                     LET r == value(simplechess_stage_get_move(heap[h].history[index]).out)
                     IN outputs = Outputs(Just(r.has_move), Just(r.move))
               /\ written' = outputs
               /\ last' = Call("stage_get_move", h, NoMove, has_value(played_move), 0, << >>,
                               rc, NULL)
    /\ UNCHANGED <<heap, threads, copies>>

\* simplechess_game_can_claim_draw: can_claim is written, then the reason if
\* there is one and the caller passed a place for it.
can_claim_draw ==
    /\ \E h \in DOMAIN heap \cup {NULL}, can_claim \in Pointers, reason \in Pointers :
         LET r == simplechess_game_can_claim_draw(h, can_claim, reason)
         IN /\ written' = IF has_value(r.out)
                           THEN Outputs(Just(value(r.out).can_claim),
                                        IF has_value(value(r.out).reason) THEN Just(value(r.out).reason)
                                        ELSE Nothing)
                           ELSE NoOutput
            /\ last' = Call("can_claim_draw", h, NoMove, FALSE, 0, << >>, r.rc, NULL)
    /\ UNCHANGED <<heap, threads, copies>>

SetUpOutput == create_game_from_fen(MaxOutputHandles, {RooksFen})
PlayOutput == make_move(MaxOutputHandles, {}, BOOLEAN)
AskMove == stage_get_move
AskClaim == can_claim_draw

OutputNext == SetUpOutput \/ PlayOutput \/ AskMove \/ AskClaim

OutputSpec == Init /\ [][OutputNext]_vars

\* Handles of every kind, created and destroyed in any order: a manager,
\* games, and the stages, boards and played moves taken from them.
MaxOwnedGames == 2
MaxCopies == 3
canCopy == Cardinality(DOMAIN copies) < MaxCopies
freshCopy ==
    CHOOSE c \in 1..(Cardinality(DOMAIN copies) + 1) :
        /\ c \notin DOMAIN copies
        /\ \A k \in 1..(c - 1) : k \in DOMAIN copies
OfKind(kind) == {c \in DOMAIN copies : copies[c].kind = kind}
Handle(op, handle, rc) == Call(op, handle, NoMove, FALSE, 0, << >>, rc, NULL)

\* *manager = new simplechess::GameManager()
game_manager_create ==
    /\ canCopy
    /\ OfKind("manager") = {}
    /\ copies' = copies @@ (freshCopy :> Copy("manager", "GameManager"))
    /\ last' = Handle("game_manager_create", NULL, SIMPLECHESS_SUCCESS)
    /\ UNCHANGED <<heap, threads, written>>

\* *stage = new simplechess::GameStage(history[index])
game_get_stage_at ==
    /\ canCopy
    /\ \E h \in DOMAIN heap, index \in 0..1 :
          LET r == simplechess_game_get_stage_at(h, index)
          IN /\ copies' = IF has_value(r.out)
                          THEN copies @@ (freshCopy :> Copy("stage", value(r.out)))
                          ELSE copies
             /\ last' = Handle("game_get_stage_at", NULL, r.rc)
    /\ UNCHANGED <<heap, threads, written>>

\* *board = new simplechess::Board(s->board())
stage_get_board ==
    /\ canCopy
    /\ \E stage \in OfKind("stage") :
          LET r == simplechess_stage_get_board(copies[stage].object)
          IN /\ copies' = copies @@ (freshCopy :> Copy("board", value(r.out)))
             /\ last' = Handle("stage_get_board", NULL, r.rc)
    /\ UNCHANGED <<heap, threads, written>>

\* *move = new simplechess::PlayedMove(played_move.value()), or nullptr
stage_get_played_move ==
    /\ canCopy
    /\ \E stage \in OfKind("stage") :
          LET r == simplechess_stage_get_move(copies[stage].object)
          IN /\ copies' = IF value(r.out).has_move
                          THEN copies @@ (freshCopy :> Copy("played_move",
                                                            value(value(r.out).move)))
                          ELSE copies
             /\ last' = Handle("stage_get_move", NULL, r.rc)
    /\ UNCHANGED <<heap, threads, written>>

\* The destroy function of the handle's kind; NULL goes to each of them.
copy_destroy ==
    /\ \E handle \in DOMAIN copies \cup {NULL},
          kind \in {"manager", "stage", "board", "played_move"} :
          /\ handle # NULL => copies[handle].kind = kind
          /\ copies' = CASE kind = "manager" -> simplechess_game_manager_destroy(handle)
                         [] kind = "stage" -> simplechess_game_stage_destroy(handle)
                         [] kind = "board" -> simplechess_board_destroy(handle)
                         [] kind = "played_move" -> simplechess_played_move_destroy(handle)
          /\ last' = Handle(kind \o "_destroy", handle, SIMPLECHESS_SUCCESS)
    /\ UNCHANGED <<heap, threads, written>>

\* simplechess_game_destroy, NULL included.
game_destroy_or_null ==
    /\ \E h \in DOMAIN heap \cup {NULL} :
          /\ heap' = simplechess_game_destroy(h)
          /\ last' = Handle("game_destroy", h, SIMPLECHESS_SUCCESS)
    /\ UNCHANGED <<threads, written, copies>>

\* One move from the initial position.
FirstMoves == {KnightMove(SIMPLECHESS_COLOR_WHITE, 1, "g", 3, "f")}
CreateManager == game_manager_create
OwnNewGame == OfKind("manager") # {} /\ create_new_game(MaxOwnedGames)
OwnMove == OfKind("manager") # {} /\ make_listed_move(MaxOwnedGames, FirstMoves, {})
TakeStage == game_get_stage_at
TakeBoard == stage_get_board
TakeMove == stage_get_played_move
DestroyCopy == copy_destroy
DestroyGame == game_destroy_or_null

HandleNext ==
    \/ CreateManager \/ OwnNewGame \/ OwnMove \/ TakeStage \/ TakeBoard \/ TakeMove
    \/ DestroyCopy \/ DestroyGame

HandleSpec == Init /\ [][HandleNext]_vars

(***************************************************************************)
(* Properties.  They are stated on what the C API reports.                 *)
(***************************************************************************)
\* The value a successful call wrote to its out-parameter.
out(r) == value(r.out)

\* test_suite.c queries FEN strings into a buffer of this size.
FenBufferSize == 100

State(h) == out(simplechess_game_get_state(h))
InPlay(h) == State(h) = SIMPLECHESS_GAME_STATE_PLAYING
ActiveColor(h) == out(simplechess_game_get_active_color(h))
\* Count, then fill an array of that size.
AvailableMoves(h) ==
    out(simplechess_game_get_available_moves(h,
            out(simplechess_game_get_available_moves_count(h))))
HistoryLength(h) == out(simplechess_game_get_history_length(h))
StageAt(h, i) == out(simplechess_game_get_stage_at(h, i))
StageMove(h, i) == out(simplechess_stage_get_move(StageAt(h, i)))
StageColor(h, i) == out(simplechess_stage_get_active_color(StageAt(h, i)))
StageRights(h, i) == out(simplechess_stage_get_castling_rights(StageAt(h, i)))
StageFen(h, i) == out(simplechess_stage_get_fen(StageAt(h, i), FenBufferSize))
PieceMoveOf(played) == out(simplechess_played_move_get_piece_move(value(played)))
CaptureOf(played) == out(simplechess_played_move_get_captured_piece(value(played)))

ManagerCalls == {"make_move", "claim_draw", "resign"}
\* The move converts to a move of the library: its squares are on the board,
\* and only a pawn promotes, to a rook, knight, bishop or queen.
WellFormed(move) == c_to_cpp_piece_move(move).exc = None

\* Everything the API reports about the game behind a handle.
Observed(h) ==
    [state |-> simplechess_game_get_state(h),
     draw_reason |-> simplechess_game_get_draw_reason(h),
     active_color |-> simplechess_game_get_active_color(h),
     history_length |-> simplechess_game_get_history_length(h),
     stages |-> [i \in 0..(HistoryLength(h) - 1) |-> simplechess_game_get_stage_at(h, i)],
     moves |-> AvailableMoves(h),
     fen |-> simplechess_game_get_current_fen(h, FenBufferSize)]

C2_AcceptedIffAvailable ==
    (last.op = "make_move" /\ InPlay(last.game) /\ WellFormed(last.move)) =>
        /\ last.rc = SIMPLECHESS_SUCCESS <=> last.move \in AvailableMoves(last.game)
        /\ last.rc = SIMPLECHESS_SUCCESS <=> last.result_game # NULL
        /\ last.move \notin AvailableMoves(last.game) =>
              last.rc = SIMPLECHESS_ERROR_ILLEGAL_STATE

\* C2 witness: the white king e1 to e3 is refused on the start position.
C2_Witness ==
    /\ last.op = "make_move"
    /\ last.move = KingE1E3
    /\ InPlay(last.game)
    /\ StageFen(last.game, 0) = StartFen
    /\ HistoryLength(last.game) = 1
    /\ last.rc = SIMPLECHESS_ERROR_ILLEGAL_STATE

\* C3: no call changes what the API reports about a game that exists: state,
\* draw reason, active colour, history length, every stage, legal moves and
\* FEN are after the call what they were before it, on success and on error.
C3_InputUnchanged ==
    [][\A h \in DOMAIN heap : h \in DOMAIN heap' /\ Observed(h)' = Observed(h)]_vars

\* C3 witness: a draw claim succeeded on a game that is still reported as in
\* play.
C3_Witness ==
    /\ last.op = "claim_draw"
    /\ last.rc = SIMPLECHESS_SUCCESS
    /\ InPlay(last.game)
    /\ State(last.result_game) = SIMPLECHESS_GAME_STATE_DRAWN

\* C4: resign on a game in play succeeds and the new game is won by the
\* colour opposite to resigning_player, whoever is to move.
C4_ResignWins ==
    (last.op = "resign" /\ InPlay(last.game)) =>
        /\ last.rc = SIMPLECHESS_SUCCESS
        /\ last.result_game # NULL
        /\ State(last.result_game) =
              IF last.color = SIMPLECHESS_COLOR_WHITE THEN SIMPLECHESS_GAME_STATE_BLACK_WON
              ELSE SIMPLECHESS_GAME_STATE_WHITE_WON

\* C4 witness: the side that is not to move resigned.
C4_Witness ==
    /\ last.op = "resign"
    /\ InPlay(last.game)
    /\ last.color # ActiveColor(last.game)
    /\ last.color = SIMPLECHESS_COLOR_BLACK
    /\ State(last.result_game) = SIMPLECHESS_GAME_STATE_WHITE_WON

\* The result of the last call extends the history of its input: nothing
\* shorter, no earlier stage changed.
ExtendsInput ==
    /\ HistoryLength(last.result_game) >= HistoryLength(last.game)
    /\ \A i \in 0..(HistoryLength(last.game) - 1) :
          StageAt(last.result_game, i) = StageAt(last.game, i)

\* C5: a successful make_move on a history of n stages gives a history of
\* n+1 stages whose first n are the input's and whose last is the new current
\* position; a successful claim_draw or resign gives no shorter history and
\* changes no earlier stage.
C5_HistoryAppendOnly ==
    /\ (last.op = "make_move" /\ last.rc = SIMPLECHESS_SUCCESS) =>
          /\ HistoryLength(last.result_game) = HistoryLength(last.game) + 1
          /\ ExtendsInput
          /\ StageAt(last.result_game, HistoryLength(last.game))
                = out(simplechess_game_get_current_stage(last.result_game))
          /\ StageFen(last.result_game, HistoryLength(last.game))
                = out(simplechess_game_get_current_fen(last.result_game, FenBufferSize))
          /\ StageFen(last.result_game, HistoryLength(last.game))
                # StageFen(last.game, HistoryLength(last.game) - 1)
    /\ (last.op \in {"claim_draw", "resign"} /\ last.rc = SIMPLECHESS_SUCCESS) => ExtendsInput

\* C5 witness: a move was made on a game that already had two stages.
C5_Witness ==
    /\ last.op = "make_move"
    /\ last.rc = SIMPLECHESS_SUCCESS
    /\ HistoryLength(last.game) = 2
    /\ HistoryLength(last.result_game) = 3

\* C6: in every game stage 0 has no played move (has_move false, a null
\* handle) and every later stage has one; the piece move of the stage a
\* make_move call appended is the move passed to that call.
C6_StageMoves ==
    /\ \A h \in DOMAIN heap :
          /\ ~StageMove(h, 0).has_move
          /\ ~has_value(StageMove(h, 0).move)
          /\ \A i \in 1..(HistoryLength(h) - 1) :
                StageMove(h, i).has_move /\ has_value(StageMove(h, i).move)
    /\ (last.op = "make_move" /\ last.rc = SIMPLECHESS_SUCCESS) =>
          PieceMoveOf(StageMove(last.result_game, HistoryLength(last.game)).move) = last.move

\* C6 witness: the stage appended by a promotion reports that promotion.
C6_Witness ==
    /\ last.op = "make_move"
    /\ last.rc = SIMPLECHESS_SUCCESS
    /\ last.move.is_promotion
    /\ last.move.promoted_type = SIMPLECHESS_PIECE_TYPE_KNIGHT
    /\ StageMove(last.result_game, 1).has_move
    /\ ~StageMove(last.result_game, 0).has_move

\* C7: in every game adjacent stages have different active colours, and a
\* successful make_move gives a game whose active colour is the other one.
C7_ColoursAlternate ==
    /\ \A h \in DOMAIN heap :
          \A i \in 0..(HistoryLength(h) - 2) : StageColor(h, i) # StageColor(h, i + 1)
    /\ (last.op = "make_move" /\ last.rc = SIMPLECHESS_SUCCESS) =>
          ActiveColor(last.result_game) # ActiveColor(last.game)

\* C7 witness: Black moved, on a game whose stages are White, Black.
C7_Witness ==
    /\ last.op = "make_move"
    /\ last.rc = SIMPLECHESS_SUCCESS
    /\ ActiveColor(last.game) = SIMPLECHESS_COLOR_BLACK
    /\ HistoryLength(last.result_game) = 3
    /\ ActiveColor(last.result_game) = SIMPLECHESS_COLOR_WHITE

\* A castling right is held in a bit set.
Holds(rights, bit) == (rights \div bit) % 2 = 1
RightColor(bit) ==
    IF bit \in {SIMPLECHESS_CASTLING_WHITE_KINGSIDE, SIMPLECHESS_CASTLING_WHITE_QUEENSIDE}
    THEN SIMPLECHESS_COLOR_WHITE ELSE SIMPLECHESS_COLOR_BLACK
HomeRank(color) == IF color = SIMPLECHESS_COLOR_WHITE THEN 1 ELSE 8
KingSquare(bit) == CSquare(HomeRank(RightColor(bit)), "e")
RookSquare(bit) ==
    CSquare(HomeRank(RightColor(bit)),
            IF bit \in {SIMPLECHESS_CASTLING_WHITE_KINGSIDE, SIMPLECHESS_CASTLING_BLACK_KINGSIDE}
            THEN "h" ELSE "a")
\* The played move takes the right away: the king or the rook of the right
\* leaves its original square, or that rook is captured there.
TakesRight(played, bit) ==
    \/ /\ PieceMoveOf(played).piece = CPiece(SIMPLECHESS_PIECE_TYPE_KING, RightColor(bit))
       /\ PieceMoveOf(played).src = KingSquare(bit)
    \/ /\ PieceMoveOf(played).piece = CPiece(SIMPLECHESS_PIECE_TYPE_ROOK, RightColor(bit))
       /\ PieceMoveOf(played).src = RookSquare(bit)
    \/ /\ CaptureOf(played).has_capture
       /\ CaptureOf(played).piece = Just(CPiece(SIMPLECHESS_PIECE_TYPE_ROOK, RightColor(bit)))
       /\ PieceMoveOf(played).dst = RookSquare(bit)

\* C8: along every history the castling rights of a later stage are among
\* those of an earlier one, and from one stage to the next a held right is
\* lost exactly when the move takes it away.
C8_CastlingRightsShrink ==
    \A h \in DOMAIN heap :
       /\ \A i, j \in 0..(HistoryLength(h) - 1) :
             i < j => \A bit \in CastlingBits :
                         Holds(StageRights(h, j), bit) => Holds(StageRights(h, i), bit)
       /\ \A i \in 1..(HistoryLength(h) - 1) :
             \A bit \in CastlingBits :
                Holds(StageRights(h, i - 1), bit) =>
                   (~Holds(StageRights(h, i), bit) <=> TakesRight(StageMove(h, i).move, bit))

\* C8 witness: White took Black's rook on a8 with the rook from a1, which
\* cost both sides their right, and two stages later neither has returned.
C8_Witness ==
    \E h \in DOMAIN heap :
       /\ HistoryLength(h) = 3
       /\ StageRights(h, 0) = SIMPLECHESS_CASTLING_WHITE_QUEENSIDE
                                 + SIMPLECHESS_CASTLING_BLACK_QUEENSIDE
       /\ CaptureOf(StageMove(h, 1).move).has_capture
       /\ PieceMoveOf(StageMove(h, 1).move).dst = CSquare(8, "a")
       /\ StageRights(h, 1) = 0
       /\ StageRights(h, 2) = 0

\* The colour that moved into the stage is not in check on its board.
MoverSafe(stage) ==
    ~isInCheck(out(simplechess_stage_get_board(stage)),
               oppositeColor(c_to_cpp_color(out(simplechess_stage_get_active_color(stage)))))

\* C9: no stage of any history has the side that just moved in check, and
\* applying any move reported as available to the current position of a game
\* in play leaves the mover's king unattacked.
C9_MoverNeverInCheck ==
    \A h \in DOMAIN heap :
       /\ \A i \in 1..(HistoryLength(h) - 1) : MoverSafe(StageAt(h, i))
       /\ InPlay(h) =>
             \A move \in AvailableMoves(h) :
                ~isInCheck(boardAfter(out(simplechess_game_get_current_stage(h)),
                                      value(c_to_cpp_piece_move(move).result)),
                           c_to_cpp_color(ActiveColor(h)))

\* C9 witness: the white rook pinned on the e-file has moved, and only along
\* the file: six rook moves and four king moves were available.
C9_Witness ==
    \E h \in DOMAIN heap :
       /\ HistoryLength(h) = 2
       /\ StageFen(h, 0) = PinFen
       /\ PieceMoveOf(StageMove(h, 1).move).piece
             = CPiece(SIMPLECHESS_PIECE_TYPE_ROOK, SIMPLECHESS_COLOR_WHITE)
       /\ PieceMoveOf(StageMove(h, 1).move).dst.file = "e"
       /\ \E g \in DOMAIN heap :
             /\ HistoryLength(g) = 1
             /\ StageFen(g, 0) = PinFen
             /\ out(simplechess_game_get_available_moves_count(g)) = 10

\* The pieces of the first rank, from file a to file h.
BackRankTypes ==
    <<SIMPLECHESS_PIECE_TYPE_ROOK, SIMPLECHESS_PIECE_TYPE_KNIGHT, SIMPLECHESS_PIECE_TYPE_BISHOP,
      SIMPLECHESS_PIECE_TYPE_QUEEN, SIMPLECHESS_PIECE_TYPE_KING, SIMPLECHESS_PIECE_TYPE_BISHOP,
      SIMPLECHESS_PIECE_TYPE_KNIGHT, SIMPLECHESS_PIECE_TYPE_ROOK>>
Placed(r, f, type, color) == [square |-> CSquare(r, Files[f]), piece |-> CPiece(type, color)]
StandardArrangement ==
    {Placed(1, f, BackRankTypes[f], SIMPLECHESS_COLOR_WHITE) : f \in 1..8}
    \cup {Placed(2, f, SIMPLECHESS_PIECE_TYPE_PAWN, SIMPLECHESS_COLOR_WHITE) : f \in 1..8}
    \cup {Placed(7, f, SIMPLECHESS_PIECE_TYPE_PAWN, SIMPLECHESS_COLOR_BLACK) : f \in 1..8}
    \cup {Placed(8, f, BackRankTypes[f], SIMPLECHESS_COLOR_BLACK) : f \in 1..8}

\* The queries on a game agree with the queries on its current stage.
GameQueriesAgree(h) ==
    LET stage == out(simplechess_game_get_current_stage(h))
    IN /\ simplechess_game_get_halfmove_clock(h) = simplechess_stage_get_halfmove_clock(stage)
       /\ simplechess_game_get_fullmove_counter(h) = simplechess_stage_get_fullmove_counter(stage)
       /\ simplechess_game_get_castling_rights(h) = simplechess_stage_get_castling_rights(stage)
       /\ simplechess_game_get_current_fen(h, FenBufferSize)
             = simplechess_stage_get_fen(stage, FenBufferSize)
       /\ simplechess_game_get_current_board(h) = simplechess_stage_get_board(stage)
       /\ simplechess_game_get_active_color(h) = simplechess_stage_get_active_color(stage)

\* C10: create_new_game gives a game in play with White to move, one stage,
\* halfmove clock 0, fullmove counter 1, all four castling rights, the 32
\* pieces of the standard arrangement and the FEN of the start position; the
\* queries on a game return what the queries on its current stage return.
C10_NewGame ==
    /\ (last.op = "create_new_game" /\ last.rc = SIMPLECHESS_SUCCESS) =>
          LET board == out(simplechess_game_get_current_board(last.result_game))
          IN /\ last.result_game # NULL
             /\ State(last.result_game) = SIMPLECHESS_GAME_STATE_PLAYING
             /\ ActiveColor(last.result_game) = SIMPLECHESS_COLOR_WHITE
             /\ HistoryLength(last.result_game) = 1
             /\ out(simplechess_game_get_halfmove_clock(last.result_game)) = 0
             /\ out(simplechess_game_get_fullmove_counter(last.result_game)) = 1
             /\ out(simplechess_game_get_castling_rights(last.result_game))
                   = SIMPLECHESS_CASTLING_WHITE_KINGSIDE + SIMPLECHESS_CASTLING_WHITE_QUEENSIDE
                     + SIMPLECHESS_CASTLING_BLACK_KINGSIDE + SIMPLECHESS_CASTLING_BLACK_QUEENSIDE
             /\ out(simplechess_board_get_occupied_squares_count(board)) = Cardinality(StandardArrangement)
             /\ out(simplechess_board_get_occupied_squares(board, Cardinality(StandardArrangement)))
                   = StandardArrangement
             /\ out(simplechess_game_get_current_fen(last.result_game, FenBufferSize)) = StartFen
    /\ \A h \in DOMAIN heap : GameQueriesAgree(h)

\* C10 witness: a new game was created next to a game with a nonzero clock,
\* a later move number and no castling rights.
C10_Witness ==
    /\ last.op = "create_new_game"
    /\ last.rc = SIMPLECHESS_SUCCESS
    /\ out(simplechess_game_get_castling_rights(last.result_game)) = 15
    /\ Cardinality(StandardArrangement) = 32
    /\ \E h \in DOMAIN heap :
          /\ out(simplechess_game_get_halfmove_clock(h)) > 0
          /\ out(simplechess_game_get_fullmove_counter(h)) > 1
          /\ out(simplechess_game_get_castling_rights(h)) = 0

\* The moves of the piece on a square: count, then fill an array of that size.
MovesForPiece(h, square) ==
    out(simplechess_game_get_moves_for_piece(h, square,
            out(simplechess_game_get_moves_for_piece_count(h, square))))
WhitePawn == CPiece(SIMPLECHESS_PIECE_TYPE_PAWN, SIMPLECHESS_COLOR_WHITE)
WhiteKnight == CPiece(SIMPLECHESS_PIECE_TYPE_KNIGHT, SIMPLECHESS_COLOR_WHITE)

\* C11: a new game has exactly 20 available moves, 16 of white pawns and 4 of
\* white knights, and the moves of the piece on e2 are exactly e2-e3 and
\* e2-e4.
C11_TwentyInitialMoves ==
    (last.op = "create_new_game" /\ last.rc = SIMPLECHESS_SUCCESS) =>
       LET moves == AvailableMoves(last.result_game)
       IN /\ out(simplechess_game_get_available_moves_count(last.result_game)) = 20
          /\ Cardinality(moves) = 20
          /\ Cardinality({m \in moves : m.piece = WhitePawn}) = 16
          /\ Cardinality({m \in moves : m.piece = WhiteKnight}) = 4
          /\ out(simplechess_game_get_moves_for_piece_count(last.result_game, CSquare(2, "e"))) = 2
          /\ MovesForPiece(last.result_game, CSquare(2, "e"))
                = {CRegularMove(WhitePawn, CSquare(2, "e"), CSquare(3, "e")),
                   CRegularMove(WhitePawn, CSquare(2, "e"), CSquare(4, "e"))}

\* C11 witness: a second new game was created, and the queries on e2 of the
\* first one still give the two pawn moves.
C11_Witness ==
    /\ last.op = "create_new_game"
    /\ last.rc = SIMPLECHESS_SUCCESS
    /\ last.result_game = 2
    /\ Cardinality(MovesForPiece(1, CSquare(2, "e"))) = 2
    /\ Cardinality(MovesForPiece(2, CSquare(2, "e"))) = 2
    /\ Cardinality(AvailableMoves(2)) = 20

CheckTypeOf(played) == out(simplechess_played_move_get_check_type(value(played)))
DrawReasonOf(h) == out(simplechess_game_get_draw_reason(h))
WonBy(color) ==
    IF color = SIMPLECHESS_COLOR_WHITE THEN SIMPLECHESS_GAME_STATE_WHITE_WON
    ELSE SIMPLECHESS_GAME_STATE_BLACK_WON
\* The move that led to the current stage of the game.
LastMove(h) == StageMove(h, HistoryLength(h) - 1).move
\* The side to move in the current position of the game has no legal move.
NoLegalMove(h) == allAvailableMoves(out(simplechess_game_get_current_stage(h))) = {}
\* The side to move in the current position of the game is in check.
SideToMoveInCheck(h) ==
    LET stage == out(simplechess_game_get_current_stage(h))
    IN isInCheck(stage.board, stage.activeColor)

\* C12: after a successful make_move, a side to move that has no legal move
\* and is in check has lost to the mover and the played move is a checkmate;
\* one that has no legal move and is not in check has drawn by stalemate.
\* Every game in play has at least one available move.
C12_MateAndStalemate ==
    /\ (last.op = "make_move" /\ last.rc = SIMPLECHESS_SUCCESS) =>
          LET g == last.result_game
          IN /\ (NoLegalMove(g) /\ SideToMoveInCheck(g)) =>
                   /\ State(g) = WonBy(ActiveColor(last.game))
                   /\ CheckTypeOf(LastMove(g)) = SIMPLECHESS_CHECK_TYPE_CHECKMATE
             /\ (NoLegalMove(g) /\ ~SideToMoveInCheck(g)) =>
                   /\ State(g) = SIMPLECHESS_GAME_STATE_DRAWN
                   /\ simplechess_game_get_draw_reason(g)
                         = Succeeded(SIMPLECHESS_DRAW_REASON_STALEMATE)
    /\ \A h \in DOMAIN heap :
          InPlay(h) => out(simplechess_game_get_available_moves_count(h)) > 0

\* C12 witness: the white queen has mated the king on h8.
C12_Witness ==
    /\ last.op = "make_move"
    /\ last.rc = SIMPLECHESS_SUCCESS
    /\ StageFen(last.game, 0) = MatingFen
    /\ NoLegalMove(last.result_game)
    /\ SideToMoveInCheck(last.result_game)
    /\ State(last.result_game) = SIMPLECHESS_GAME_STATE_WHITE_WON
    /\ CheckTypeOf(LastMove(last.result_game)) = SIMPLECHESS_CHECK_TYPE_CHECKMATE

\* Placement, active colour, castling rights and en-passant square of a
\* stage, as its FEN string gives them.
PositionOf(h, i) == SubSeq(split(StageFen(h, i), " "), 1, 4)
\* How often the current position of the game has occurred in its history.
Occurrences(h) ==
    Cardinality({i \in 0..(HistoryLength(h) - 1) :
                    PositionOf(h, i) = PositionOf(h, HistoryLength(h) - 1)})
HalfmoveClock(h) == out(simplechess_game_get_halfmove_clock(h))
\* The move that led to the current position carried a draw offer.
OfferPending(h) ==
    /\ StageMove(h, HistoryLength(h) - 1).has_move
    /\ out(simplechess_played_move_is_draw_offered(value(LastMove(h))))
\* The reasons for which a draw can be claimed in the current position.
ClaimReasons(h) ==
    (IF Occurrences(h) >= 3 THEN {SIMPLECHESS_DRAW_REASON_THREE_FOLD_REPETITION} ELSE {})
    \cup (IF HalfmoveClock(h) >= 100 THEN {SIMPLECHESS_DRAW_REASON_FIFTY_MOVE_RULE} ELSE {})
    \cup (IF OfferPending(h) THEN {SIMPLECHESS_DRAW_REASON_OFFERED_AND_ACCEPTED} ELSE {})

\* C13: claim_draw on a game in play succeeds only if the position has
\* occurred three times, the halfmove clock is at least 100 or the last move
\* carried a draw offer; the result is then a drawn game whose reason is one
\* of those that hold.  When none holds the call returns ILLEGAL_STATE and
\* gives no game.
C13_ClaimDraw ==
    (last.op = "claim_draw" /\ InPlay(last.game)) =>
       /\ last.rc = SIMPLECHESS_SUCCESS =>
             /\ ClaimReasons(last.game) # {}
             /\ State(last.result_game) = SIMPLECHESS_GAME_STATE_DRAWN
             /\ simplechess_game_get_draw_reason(last.result_game).rc = SIMPLECHESS_SUCCESS
             /\ DrawReasonOf(last.result_game) \in ClaimReasons(last.game)
       /\ ClaimReasons(last.game) = {} =>
             /\ last.rc = SIMPLECHESS_ERROR_ILLEGAL_STATE
             /\ last.result_game = NULL

\* C13 witness: a draw was claimed at the third occurrence of the start
\* position, with no offer pending and the clock below 100.
C13_Witness ==
    /\ last.op = "claim_draw"
    /\ last.rc = SIMPLECHESS_SUCCESS
    /\ ClaimReasons(last.game) = {SIMPLECHESS_DRAW_REASON_THREE_FOLD_REPETITION}
    /\ DrawReasonOf(last.result_game) = SIMPLECHESS_DRAW_REASON_THREE_FOLD_REPETITION

CanClaimDraw(h) == simplechess_game_can_claim_draw(h, ValidPointer, ValidPointer)
\* On a game in play can_claim_draw succeeds, says that a draw can be claimed
\* exactly when claim_draw would succeed, and reports the reason of the game
\* claim_draw would give.
CanClaimAgreesInPlay(h) ==
    LET claimed == simplechess_claim_draw(ValidPointer, h, ValidPointer)
    IN /\ CanClaimDraw(h).rc = SIMPLECHESS_SUCCESS
       /\ out(CanClaimDraw(h)).can_claim <=> claimed.rc = SIMPLECHESS_SUCCESS
       /\ out(CanClaimDraw(h)).can_claim =>
             out(CanClaimDraw(h)).reason = Just(cpp_to_c_draw_reason(out(claimed).drawReason))

\* C14: can_claim_draw agrees with claim_draw on every game in play, and
\* returns ILLEGAL_STATE for every game that is not in play.
C14_CanClaimAgrees ==
    \A h \in DOMAIN heap :
       IF InPlay(h) THEN CanClaimAgreesInPlay(h)
       ELSE CanClaimDraw(h).rc = SIMPLECHESS_ERROR_ILLEGAL_STATE

\* The pieces on the current board of the game: count, then fill an array of
\* that size.
PiecesOf(h) ==
    LET board == out(simplechess_game_get_current_board(h))
    IN out(simplechess_board_get_occupied_squares(board,
               out(simplechess_board_get_occupied_squares_count(board))))
OnlyKings(h) ==
    /\ Cardinality(PiecesOf(h)) = 2
    /\ \A p \in PiecesOf(h) : p.piece.type = SIMPLECHESS_PIECE_TYPE_KING
\* The reasons for which the current position of the game is a draw without
\* a claim.
AutomaticReasons(h) ==
    (IF HalfmoveClock(h) >= 150 THEN {SIMPLECHESS_DRAW_REASON_SEVENTY_FIVE_MOVE_RULE} ELSE {})
    \cup (IF Occurrences(h) >= 5 THEN {SIMPLECHESS_DRAW_REASON_FIVE_FOLD_REPETITION} ELSE {})
    \cup (IF OnlyKings(h) THEN {SIMPLECHESS_DRAW_REASON_INSUFFICIENT_MATERIAL} ELSE {})

C16_DrawReasonIffDrawn ==
    \A h \in DOMAIN heap :
       LET r == simplechess_game_get_draw_reason(h)
       IN IF State(h) = SIMPLECHESS_GAME_STATE_DRAWN
          THEN /\ r.rc = SIMPLECHESS_SUCCESS
               /\ has_value(r.out)
               /\ out(r) \in SIMPLECHESS_DRAW_REASON_STALEMATE
                               ..SIMPLECHESS_DRAW_REASON_SEVENTY_FIVE_MOVE_RULE
          ELSE r = Failed(SIMPLECHESS_ERROR_ILLEGAL_STATE)

\* C16 witness: a new game and the game its resignation gave, both without a
\* draw reason.
C16_Witness ==
    /\ last.op = "resign"
    /\ last.rc = SIMPLECHESS_SUCCESS
    /\ StageFen(last.game, 0) = StartFen
    /\ InPlay(last.game)
    /\ State(last.result_game) \in {SIMPLECHESS_GAME_STATE_WHITE_WON,
                                     SIMPLECHESS_GAME_STATE_BLACK_WON}
    /\ simplechess_game_get_draw_reason(last.game).rc = SIMPLECHESS_ERROR_ILLEGAL_STATE
    /\ simplechess_game_get_draw_reason(last.result_game).rc = SIMPLECHESS_ERROR_ILLEGAL_STATE

HalfmoveAt(h, i) == out(simplechess_stage_get_halfmove_clock(StageAt(h, i)))
FullmoveAt(h, i) == out(simplechess_stage_get_fullmove_counter(StageAt(h, i)))
\* The counters the library holds for a stage are values of a uint16_t.
FitsUint16(stage) ==
    /\ stage.halfMovesSinceLastCaptureOrPawnAdvance \in 0..(Uint16Values - 1)
    /\ stage.fullMoveCounter \in 0..(Uint16Values - 1)
\* The counters of the stage a successful make_move added follow from the
\* counters of the stage before it and from the move.
CountersFollowRule ==
    (last.op = "make_move" /\ last.rc = SIMPLECHESS_SUCCESS) =>
       LET g == last.result_game
           n == HistoryLength(g)
           played == LastMove(g)
       IN /\ HalfmoveAt(g, n - 1)
                = IF CaptureOf(played).has_capture
                     \/ PieceMoveOf(played).piece.type = SIMPLECHESS_PIECE_TYPE_PAWN
                  THEN 0 ELSE HalfmoveAt(g, n - 2) + 1
          /\ FullmoveAt(g, n - 1)
                = IF PieceMoveOf(played).piece.color = SIMPLECHESS_COLOR_BLACK
                  THEN FullmoveAt(g, n - 2) + 1 ELSE FullmoveAt(g, n - 2)

\* C17: after a successful make_move the halfmove clock is 0 for a capture or
\* a pawn move and the previous clock plus 1 otherwise, the fullmove counter
\* is the previous counter plus 1 after a move of Black and unchanged after a
\* move of White; both counters of every stage are values of a uint16_t.
C17_Counters ==
    /\ CountersFollowRule
    /\ \A h \in DOMAIN heap :
          \A i \in 0..(HistoryLength(h) - 1) : FitsUint16(StageAt(h, i))

\* A draw can be claimed in the game for an accepted offer: can_claim_draw
\* says so and claim_draw would give a game drawn for that reason.
ClaimableForOffer(h) ==
    LET claimed == simplechess_claim_draw(ValidPointer, h, ValidPointer)
    IN /\ CanClaimDraw(h) = Succeeded([can_claim |-> TRUE,
                                        reason |-> Just(SIMPLECHESS_DRAW_REASON_OFFERED_AND_ACCEPTED)])
       /\ claimed.rc = SIMPLECHESS_SUCCESS
       /\ cpp_to_c_game_state(out(claimed).gameState) = SIMPLECHESS_GAME_STATE_DRAWN
       /\ cpp_to_c_draw_reason(out(claimed).drawReason)
             = SIMPLECHESS_DRAW_REASON_OFFERED_AND_ACCEPTED
\* No draw can be claimed in the game.
NotClaimable(h) ==
    /\ CanClaimDraw(h) = Succeeded([can_claim |-> FALSE, reason |-> Nothing])
    /\ simplechess_claim_draw(ValidPointer, h, ValidPointer)
          = Failed(SIMPLECHESS_ERROR_ILLEGAL_STATE)

\* C18: the played move of the stage a successful make_move added carries a
\* draw offer exactly when offer_draw was true; with an offer, the resulting
\* game, if in play, can be drawn by claim for the reason OfferedAndAccepted;
\* without one, an offer made with an earlier move gives no claim: a draw can
\* be claimed only for a repetition or for the halfmove clock.
C18_DrawOffer ==
    (last.op = "make_move" /\ last.rc = SIMPLECHESS_SUCCESS) =>
       LET g == last.result_game
       IN /\ simplechess_played_move_is_draw_offered(value(LastMove(g)))
                = Succeeded(last.offer_draw)
          /\ (last.offer_draw /\ InPlay(g)) => ClaimableForOffer(g)
          /\ (~last.offer_draw /\ InPlay(g)) =>
                /\ out(CanClaimDraw(g)).reason
                      # Just(SIMPLECHESS_DRAW_REASON_OFFERED_AND_ACCEPTED)
                /\ (Occurrences(g) < 3 /\ HalfmoveClock(g) < 100) => NotClaimable(g)

\* C18 witness: a move without an offer was played in a game where the offer
\* of the move before could be accepted; in the game that results no draw can
\* be claimed.
C18_Witness ==
    /\ last.op = "make_move"
    /\ last.rc = SIMPLECHESS_SUCCESS
    /\ ~last.offer_draw
    /\ HistoryLength(last.game) = 2
    /\ ClaimableForOffer(last.game)
    /\ InPlay(last.result_game)
    /\ NotClaimable(last.result_game)
    /\ out(simplechess_played_move_is_draw_offered(
               value(StageMove(last.result_game, 1).move)))

\* What the API reports about a stage, the move that led to it left out.
Snapshot(stage) ==
    [board |-> simplechess_stage_get_board(stage),
     active_color |-> simplechess_stage_get_active_color(stage),
     castling_rights |-> simplechess_stage_get_castling_rights(stage),
     halfmove_clock |-> simplechess_stage_get_halfmove_clock(stage),
     fullmove_counter |-> simplechess_stage_get_fullmove_counter(stage),
     fen |-> simplechess_stage_get_fen(stage, FenBufferSize)]
\* Creating a game from the FEN string of the stage succeeds and gives a game
\* whose only stage shows the same snapshot; the en-passant square is part of
\* the FEN string.
RoundTrips(stage) ==
    LET created == simplechess_create_game_from_fen(
                       ValidPointer, out(simplechess_stage_get_fen(stage, FenBufferSize)),
                       ValidPointer)
    IN /\ created.rc = SIMPLECHESS_SUCCESS
       /\ Len(out(created).history) = 1
       /\ Snapshot(currentStage(out(created))) = Snapshot(stage)

\* C19: for every stage of every game, the game created from the stage's FEN
\* string has a current stage with the same board, active colour, castling
\* rights, en-passant square, halfmove clock, fullmove counter and FEN
\* string; the game created from the start FEN has the state, the active
\* colour and the available moves of a new game.
C19_FenRoundTrip ==
    /\ \A h \in DOMAIN heap : \A i \in 0..(HistoryLength(h) - 1) : RoundTrips(StageAt(h, i))
    /\ (last.op = "create_new_game" /\ last.rc = SIMPLECHESS_SUCCESS) =>
          LET created == simplechess_create_game_from_fen(ValidPointer, StartFen, ValidPointer)
          IN /\ created.rc = SIMPLECHESS_SUCCESS
             /\ cpp_to_c_game_state(out(created).gameState) = State(last.result_game)
             /\ cpp_to_c_color(activeColor(out(created))) = ActiveColor(last.result_game)
             /\ {cpp_to_c_piece_move(m) : m \in out(created).allAvailableMoves}
                   = AvailableMoves(last.result_game)

\* C19 witness: a pawn advanced two squares in a new game; the stage that
\* results has an en-passant square and Black to move, and its FEN string
\* gives the same stage again.
C19_Witness ==
    \E h, g \in DOMAIN heap :
       /\ HistoryLength(g) = 1
       /\ StageFen(g, 0) = StartFen
       /\ HistoryLength(h) = 2
       /\ StageFen(h, 0) = StartFen
       /\ split(StageFen(h, 1), " ")[4] # <<"-">>
       /\ StageColor(h, 1) = SIMPLECHESS_COLOR_BLACK
       /\ HalfmoveAt(h, 1) = 0
       /\ RoundTrips(StageAt(h, 1))

\* C20: create_game_from_fen with the empty string, with a string that has
\* not six fields, with a placement that is not 8 ranks of 8 squares, with two
\* kings of one colour or with an active colour other than w or b returns
\* INVALID_ARGUMENT, writes no handle and leaves the games as they were.
C20_MalformedFenRejected ==
    [][(last'.op = "create_game_from_fen" /\ last'.fen \in MalformedFens) =>
          /\ last'.rc = SIMPLECHESS_ERROR_INVALID_ARGUMENT
          /\ last'.result_game = NULL
          /\ heap' = heap]_vars

\* C20 witness: next to a game, the string with two white kings was refused.
C20_Witness ==
    /\ last.op = "create_game_from_fen"
    /\ last.fen = TwoKingsFen
    /\ Len(split(last.fen, " ")) = 6
    /\ Len(split(split(last.fen, " ")[1], "/")) = 8
    /\ last.rc = SIMPLECHESS_ERROR_INVALID_ARGUMENT
    /\ DOMAIN heap = {1}

\* test_suite.c asks for a FEN string with a buffer of this size.
SmallBufferSize == 5
\* The capacities tried around a count, and the sizes tried around a length.
Around(n) == {0, 1, n - 1, n, n + 1} \cap Nat
\* An array call with a capacity below the count fails and writes nothing;
\* with a capacity from the count on it writes that many elements.
Filled(r, capacity, count) ==
    IF capacity < count THEN r = Failed(SIMPLECHESS_ERROR_INVALID_ARGUMENT)
    ELSE r.rc = SIMPLECHESS_SUCCESS /\ Cardinality(out(r)) = count
\* A string call fails and writes nothing unless the buffer holds the string
\* and its terminator.
Copied(r, buffer_size, length) ==
    IF buffer_size >= length + 1 THEN r.rc = SIMPLECHESS_SUCCESS /\ Len(out(r)) = length
    ELSE r = Failed(SIMPLECHESS_ERROR_INVALID_ARGUMENT)
AllCSquares == {CSquare(r, Files[f]) : r \in 1..8, f \in 1..8}

CountThenFillMoves(h) ==
    LET count == out(simplechess_game_get_available_moves_count(h))
    IN \A capacity \in Around(count) :
          Filled(simplechess_game_get_available_moves(h, capacity), capacity, count)
CountThenFillPieceMoves(h) ==
    \A square \in AllCSquares :
       LET count == out(simplechess_game_get_moves_for_piece_count(h, square))
       IN \A capacity \in Around(count) :
             Filled(simplechess_game_get_moves_for_piece(h, square, capacity), capacity, count)
CountThenFillSquares(h) ==
    LET board == out(simplechess_game_get_current_board(h))
        count == out(simplechess_board_get_occupied_squares_count(board))
    IN \A capacity \in Around(count) :
          Filled(simplechess_board_get_occupied_squares(board, capacity), capacity, count)
StringsNeedRoom(h) ==
    /\ \A i \in 0..(HistoryLength(h) - 1) :
          LET length == Len(StageFen(h, i))
          IN /\ \A size \in Around(length) \cup {SmallBufferSize, FenBufferSize} :
                   Copied(simplechess_stage_get_fen(StageAt(h, i), size), size, length)
             /\ StageMove(h, i).has_move =>
                   LET played == value(StageMove(h, i).move)
                       notation == Len(played.inAlgebraicNotation)
                   IN \A size \in Around(notation) \cup {SmallBufferSize} :
                         Copied(simplechess_played_move_get_algebraic_notation(played, size),
                                size, notation)
    /\ \A size \in Around(Len(StageFen(h, HistoryLength(h) - 1))) \cup {SmallBufferSize} :
          Copied(simplechess_game_get_current_fen(h, size), size,
                 Len(StageFen(h, HistoryLength(h) - 1)))
    /\ \A size \in 0..4 :
          Copied(simplechess_square_to_string(CSquare(4, "e"), size), size, 2)

\* C21: get_available_moves, get_moves_for_piece and get_occupied_squares
\* fail with INVALID_ARGUMENT and write nothing when the capacity is below the
\* count the matching count function returns, and write exactly that many
\* elements otherwise; the FEN and notation getters fail with INVALID_ARGUMENT
\* and write nothing unless the buffer holds the string and its terminator.
C21_CountThenFill ==
    \A h \in DOMAIN heap :
       /\ CountThenFillMoves(h)
       /\ CountThenFillPieceMoves(h)
       /\ CountThenFillSquares(h)
       /\ StringsNeedRoom(h)

\* C21 witness: after 1. e4 in a new game, an array of one move is too small
\* for the 20 moves of the new game, a buffer of five characters is too
\* small for its FEN string, and the notation e4 needs three characters.
C21_Witness ==
    \E g, h \in DOMAIN heap :
       /\ StageFen(g, 0) = StartFen
       /\ out(simplechess_game_get_available_moves_count(g)) = 20
       /\ simplechess_game_get_available_moves(g, 1) = Failed(SIMPLECHESS_ERROR_INVALID_ARGUMENT)
       /\ simplechess_game_get_available_moves(g, 20).rc = SIMPLECHESS_SUCCESS
       /\ simplechess_game_get_current_fen(g, SmallBufferSize)
             = Failed(SIMPLECHESS_ERROR_INVALID_ARGUMENT)
       /\ HistoryLength(h) = 2
       /\ simplechess_played_move_get_algebraic_notation(value(LastMove(h)), 2)
             = Failed(SIMPLECHESS_ERROR_INVALID_ARGUMENT)
       /\ simplechess_played_move_get_algebraic_notation(value(LastMove(h)), 3)
             = Succeeded(<<"e", "4">>)

\* test_suite.c asks for the stage at this index of a new game.
FarIndex == 999

\* C22: get_stage_at succeeds for every index below the history length and
\* returns INVALID_ARGUMENT, with no stage handle, for every index from the
\* length on; get_current_stage returns the stage get_stage_at returns for
\* the last index.
C22_HistoryIndexing ==
    \A h \in DOMAIN heap :
       LET n == HistoryLength(h)
       IN /\ n >= 1
          /\ \A index \in 0..(n - 1) :
                /\ simplechess_game_get_stage_at(h, index).rc = SIMPLECHESS_SUCCESS
                /\ has_value(simplechess_game_get_stage_at(h, index).out)
          /\ \A index \in {n, n + 1, FarIndex} :
                simplechess_game_get_stage_at(h, index)
                   = Failed(SIMPLECHESS_ERROR_INVALID_ARGUMENT)
          /\ simplechess_game_get_current_stage(h) = simplechess_game_get_stage_at(h, n - 1)

\* C22 witness: a game with three stages, all different; index 3 is refused
\* and index 2 gives the current stage.
C22_Witness ==
    \E h \in DOMAIN heap :
       /\ HistoryLength(h) = 3
       /\ StageAt(h, 0) # StageAt(h, 1)
       /\ StageAt(h, 1) # StageAt(h, 2)
       /\ StageAt(h, 0) # StageAt(h, 2)
       /\ simplechess_game_get_stage_at(h, 3) = Failed(SIMPLECHESS_ERROR_INVALID_ARGUMENT)
       /\ out(simplechess_game_get_current_stage(h)) = StageAt(h, 2)

OnBoard(square) == c_to_cpp_square(square).exc = None
PromotionTargets ==
    {SIMPLECHESS_PIECE_TYPE_ROOK, SIMPLECHESS_PIECE_TYPE_KNIGHT, SIMPLECHESS_PIECE_TYPE_BISHOP,
     SIMPLECHESS_PIECE_TYPE_QUEEN}

\* C23: with squares on the board, piece_move_promotion succeeds exactly for
\* a pawn promoted to a rook, knight, bishop or queen; for any other piece or
\* promoted type it returns INVALID_ARGUMENT and writes no move.  A move from
\* piece_move_regular is no promotion; a move from piece_move_promotion is a
\* promotion to the requested type.
C23_MoveBuilders ==
    LET a == last.move
    IN /\ last.op = "piece_move_promotion" =>
             LET r == simplechess_piece_move_promotion(a.piece, a.src, a.dst, a.promoted_type)
                 proper == /\ a.piece.type = SIMPLECHESS_PIECE_TYPE_PAWN
                           /\ a.promoted_type \in PromotionTargets
             IN /\ r.rc = last.rc
                /\ (OnBoard(a.src) /\ OnBoard(a.dst)) => (r.rc = SIMPLECHESS_SUCCESS <=> proper)
                /\ ~proper => r = Failed(SIMPLECHESS_ERROR_INVALID_ARGUMENT)
                /\ r.rc # SIMPLECHESS_SUCCESS => r.out = Nothing
                /\ r.rc = SIMPLECHESS_SUCCESS =>
                      out(r) = Requested(a.piece, a.src, a.dst, TRUE, a.promoted_type)
       /\ last.op = "piece_move_regular" =>
             LET r == simplechess_piece_move_regular(a.piece, a.src, a.dst)
             IN /\ r.rc = last.rc
                /\ r.rc = SIMPLECHESS_SUCCESS => ~out(r).is_promotion

\* C23 witness: the promotion of a white king from e7 to e8 to a queen was
\* refused.
C23_Witness ==
    /\ last.op = "piece_move_promotion"
    /\ last.move = Requested(CPiece(SIMPLECHESS_PIECE_TYPE_KING, SIMPLECHESS_COLOR_WHITE),
                              CSquare(7, "e"), CSquare(8, "e"), TRUE,
                              SIMPLECHESS_PIECE_TYPE_QUEEN)
    /\ last.rc = SIMPLECHESS_ERROR_INVALID_ARGUMENT

\* The k-th square of the board, from a1 to h8.
NthCSquare(k) == CSquare(((k - 1) \div 8) + 1, Files[((k - 1) % 8) + 1])
\* The counts of get_moves_for_piece_count for the first k squares, added up.
RECURSIVE SumOfCounts(_, _)
SumOfCounts(h, k) ==
    IF k = 0 THEN 0
    ELSE out(simplechess_game_get_moves_for_piece_count(h, NthCSquare(k))) + SumOfCounts(h, k - 1)
SameSquare(a, b) == c_to_cpp_square(a) = c_to_cpp_square(b)
\* The square is empty or holds a piece of the colour that is not to move.
NotToMove(h, square) ==
    LET at == out(simplechess_board_get_piece_at(out(simplechess_game_get_current_board(h)),
                                                 square))
    IN ~at.has_piece \/ value(at.piece).color # ActiveColor(h)
\* Squares named with an upper-case file letter.
UpperCaseSquares == {CSquare(2, "E"), CSquare(7, "A")}

\* C24: for every game and every square of the board, the moves returned for
\* the square are the available moves of the game that start on it; the call
\* succeeds with no move for an empty square and for a piece of the colour
\* not to move; the counts of the 64 squares add up to the count of the
\* available moves.
C24_PerPieceRestriction ==
    \A h \in DOMAIN heap :
       /\ \A square \in AllCSquares \cup UpperCaseSquares :
             /\ simplechess_game_get_moves_for_piece_count(h, square).rc = SIMPLECHESS_SUCCESS
             /\ MovesForPiece(h, square)
                   = {m \in AvailableMoves(h) : SameSquare(m.src, square)}
             /\ out(simplechess_game_get_moves_for_piece_count(h, square))
                   = Cardinality(MovesForPiece(h, square))
             /\ NotToMove(h, square) =>
                   simplechess_game_get_moves_for_piece(h, square, 0) = Succeeded({})
       /\ SumOfCounts(h, 64) = out(simplechess_game_get_available_moves_count(h))

\* C24 witness: Black is to move; the white pawn on d4 and the empty square
\* e5 have no moves, the black pawn on e4 has some, and so has the pawn on a2.
C24_Witness ==
    \E h \in DOMAIN heap :
       /\ StageFen(h, 0) = PawnsFen
       /\ HistoryLength(h) = 1
       /\ ActiveColor(h) = SIMPLECHESS_COLOR_BLACK
       /\ simplechess_game_get_moves_for_piece_count(h, CSquare(4, "d")) = Succeeded(0)
       /\ simplechess_game_get_moves_for_piece_count(h, CSquare(5, "e")) = Succeeded(0)
       /\ out(simplechess_game_get_moves_for_piece_count(h, CSquare(4, "e"))) > 0
       /\ out(simplechess_game_get_moves_for_piece_count(h, CSquare(2, "a"))) > 0
       /\ SumOfCounts(h, 64) > 0

ThreadInCall(t) == threads[t].pc # "idle"
ThreadReturned(t) == threads[t].pc = "returned"
\* What a thread got is what the call gives alone: the same code, and the
\* same game behind the handle or the same answers to the query.
ReturnedAsAlone(t) ==
    LET alone == threads[t].alone
        result == threads[t].result
    IN /\ result.rc = alone.rc
       /\ has_value(result.out) = has_value(alone.out)
       /\ has_value(result.out) =>
             IF threads[t].call.op = "query" THEN out(result) = out(alone)
             ELSE heap[out(result)] = out(alone)

MalformedMoves ==
    {PawnOffBoard,
     CRegularMove(CPiece(SIMPLECHESS_PIECE_TYPE_PAWN, SIMPLECHESS_COLOR_WHITE),
                  CSquare(2, "i"), CSquare(3, "e")),
     CRegularMove(CPiece(SIMPLECHESS_PIECE_TYPE_KING, SIMPLECHESS_COLOR_BLACK),
                  CSquare(0, "a"), CSquare(1, "a")),
     Requested(CPiece(SIMPLECHESS_PIECE_TYPE_KNIGHT, SIMPLECHESS_COLOR_WHITE),
               CSquare(1, "g"), CSquare(3, "f"), TRUE, SIMPLECHESS_PIECE_TYPE_QUEEN),
     Requested(CPiece(SIMPLECHESS_PIECE_TYPE_PAWN, SIMPLECHESS_COLOR_WHITE),
               CSquare(7, "e"), CSquare(8, "e"), TRUE, SIMPLECHESS_PIECE_TYPE_KING),
     Requested(CPiece(SIMPLECHESS_PIECE_TYPE_PAWN, SIMPLECHESS_COLOR_BLACK),
               CSquare(2, "b"), CSquare(1, "b"), TRUE, SIMPLECHESS_PIECE_TYPE_PAWN)}
\* Well-formed moves tried on a game: the legal ones of its last position
\* and two that are legal in few positions.
WellFormedMoves(h) == LegalMoveInputs(heap[h]) \cup {KingE1E3, BlackPawnE7E5}
ResultCodes ==
    {SIMPLECHESS_SUCCESS, SIMPLECHESS_ERROR_INVALID_ARGUMENT, SIMPLECHESS_ERROR_ILLEGAL_STATE,
     SIMPLECHESS_ERROR_OUT_OF_MEMORY, SIMPLECHESS_ERROR_UNKNOWN}
MoveResult(h, move, offer_draw) ==
    simplechess_make_move(ValidPointer, h, move, offer_draw, ValidPointer)
LegalNow(h, move) == InPlay(h) /\ move \in AvailableMoves(h)

CastlingShaped(m) ==
    /\ m.piece.type = SIMPLECHESS_PIECE_TYPE_KING
    /\ ~m.is_promotion
    /\ m.src.file = "e"
    /\ m.dst.file \in {"c", "g"}
    /\ m.src.rank = m.dst.rank
    /\ m.src.rank = IF m.piece.color = SIMPLECHESS_COLOR_WHITE THEN 1 ELSE 8
Kingside(m) == m.dst.file = "g"
CrossedFile(m) == IF Kingside(m) THEN "f" ELSE "d"
RookFile(m) == IF Kingside(m) THEN "h" ELSE "a"
FilesBetween(m) == IF Kingside(m) THEN {"f", "g"} ELSE {"b", "c", "d"}
KingsideOf(color) ==
    IF color = SIMPLECHESS_COLOR_WHITE THEN SIMPLECHESS_CASTLING_WHITE_KINGSIDE
    ELSE SIMPLECHESS_CASTLING_BLACK_KINGSIDE
QueensideOf(color) ==
    IF color = SIMPLECHESS_COLOR_WHITE THEN SIMPLECHESS_CASTLING_WHITE_QUEENSIDE
    ELSE SIMPLECHESS_CASTLING_BLACK_QUEENSIDE
RightOf(m) == IF Kingside(m) THEN KingsideOf(m.piece.color) ELSE QueensideOf(m.piece.color)
Rights(h) == out(simplechess_game_get_castling_rights(h))
GameHolds(h, bit) == Holds(Rights(h), bit)
BoardOf(h) == out(simplechess_game_get_current_board(h))
PieceOn(h, r, f) == out(simplechess_board_get_piece_at(BoardOf(h), CSquare(r, f)))
\* A piece of the other colour than the mover's attacks the square.
AttackedByOpponent(h, m, f) ==
    isAttacked(BoardOf(h), value(c_to_cpp_square(CSquare(m.src.rank, f)).result),
               oppositeColor(c_to_cpp_color(m.piece.color)))
KingStep(m) == CRegularMove(m.piece, m.src, CSquare(m.src.rank, CrossedFile(m)))
OtherColor(color) ==
    IF color = SIMPLECHESS_COLOR_WHITE THEN SIMPLECHESS_COLOR_BLACK
    ELSE SIMPLECHESS_COLOR_WHITE
Holding(r, piece) == r.has_piece /\ value(r.piece) = piece

CastlingAllowed(h, m) ==
    /\ GameHolds(h, RightOf(m))
    /\ \A f \in FilesBetween(m) : ~PieceOn(h, m.src.rank, f).has_piece
    /\ Holding(PieceOn(h, m.src.rank, RookFile(m)),
               CPiece(SIMPLECHESS_PIECE_TYPE_ROOK, m.piece.color))
    /\ ~SideToMoveInCheck(h)
    /\ ~AttackedByOpponent(h, m, "e")
    /\ ~AttackedByOpponent(h, m, CrossedFile(m))
    /\ ~AttackedByOpponent(h, m, m.dst.file)
    /\ KingStep(m) \in AvailableMoves(h)

CastlingDone(before, m, after) ==
    LET r == m.src.rank
        color == m.piece.color
    IN /\ Holding(PieceOn(after, r, CrossedFile(m)), CPiece(SIMPLECHESS_PIECE_TYPE_ROOK, color))
       /\ Holding(PieceOn(after, r, m.dst.file), m.piece)
       /\ ~PieceOn(after, r, "e").has_piece
       /\ ~PieceOn(after, r, RookFile(m)).has_piece
       /\ Cardinality(PiecesOf(after)) = Cardinality(PiecesOf(before))
       /\ ~GameHolds(after, KingsideOf(color))
       /\ ~GameHolds(after, QueensideOf(color))
       /\ \A bit \in {KingsideOf(OtherColor(color)), QueensideOf(OtherColor(color))} :
             GameHolds(after, bit) = GameHolds(before, bit)

\* C27: a castling move is among the available moves of a game only if the
\* right for that side is held, the squares between king and rook are empty,
\* the king is not in check and neither the square it crosses nor the one it
\* lands on is attacked; once played, the rook stands on the square the king
\* crossed and the mover holds no castling right.
C27_Castling ==
    /\ \A h \in DOMAIN heap :
          \A m \in AvailableMoves(h) : CastlingShaped(m) => CastlingAllowed(h, m)
    /\ (/\ last.op = "make_move"
        /\ last.rc = SIMPLECHESS_SUCCESS
        /\ CastlingShaped(last.move))
         => CastlingDone(last.game, last.move, last.result_game)

\* C27 witness: White has castled kingside; in the game that resulted the
\* rook on f1 attacks f8, so that Black, who holds both rights and has empty
\* squares on both sides, may castle queenside only.
C27_Witness ==
    /\ last.op = "make_move"
    /\ last.rc = SIMPLECHESS_SUCCESS
    /\ CastlingShaped(last.move)
    /\ Kingside(last.move)
    /\ GameHolds(last.game, SIMPLECHESS_CASTLING_WHITE_QUEENSIDE)
    /\ LET g == last.result_game
           black == CPiece(SIMPLECHESS_PIECE_TYPE_KING, SIMPLECHESS_COLOR_BLACK)
           short == CRegularMove(black, CSquare(8, "e"), CSquare(8, "g"))
           long == CRegularMove(black, CSquare(8, "e"), CSquare(8, "c"))
       IN /\ GameHolds(g, SIMPLECHESS_CASTLING_BLACK_KINGSIDE)
          /\ \A f \in FilesBetween(short) : ~PieceOn(g, 8, f).has_piece
          /\ AttackedByOpponent(g, short, "f")
          /\ short \notin AvailableMoves(g)
          /\ long \in AvailableMoves(g)

Accepted == last.op \in ManagerCalls /\ last.rc = SIMPLECHESS_SUCCESS
\* The stages of the game, from the initial position on.
Stages(h) == [i \in 0..(HistoryLength(h) - 1) |-> StageAt(h, i)]
\* The history of the game is the history of the other game and one more
\* stage.
OneStageMore(after, before) ==
    /\ HistoryLength(after) = HistoryLength(before) + 1
    /\ \A i \in 0..(HistoryLength(before) - 1) : StageAt(after, i) = StageAt(before, i)

OutputCalls == {"stage_get_move", "can_claim_draw"}
Refused == last.op \in OutputCalls /\ last.rc # SIMPLECHESS_SUCCESS

\* C29: when simplechess_stage_get_move or simplechess_game_can_claim_draw
\* returns a code other than SUCCESS, for a NULL argument or a failed
\* allocation, neither of its output parameters has been written.
C29_NoPartialOutput == Refused => written = NoOutput

DestroyCalls == {"game_destroy", "manager_destroy", "stage_destroy", "board_destroy",
                 "played_move_destroy"}
\* What the queries report on the object behind a stage, board or played-move
\* handle.
Reported(c) ==
    LET object == copies[c].object
    IN CASE copies[c].kind = "stage" ->
              <<simplechess_stage_get_board(object),
                simplechess_stage_get_active_color(object),
                simplechess_stage_get_castling_rights(object),
                simplechess_stage_get_halfmove_clock(object),
                simplechess_stage_get_fullmove_counter(object),
                simplechess_stage_get_move(object)>>
         [] copies[c].kind = "board" ->
              <<simplechess_board_get_occupied_squares(object,
                    out(simplechess_board_get_occupied_squares_count(object)))>>
         [] copies[c].kind = "played_move" ->
              <<simplechess_played_move_get_piece_move(object),
                simplechess_played_move_get_algebraic_notation(object, FenBufferSize),
                simplechess_played_move_get_check_type(object)>>
         [] OTHER -> << >>
\* What the queries report on the game behind a handle.
ReportedOfGame(h) ==
    <<simplechess_game_get_state(h), simplechess_game_get_history_length(h),
      simplechess_game_get_active_color(h), simplechess_game_get_available_moves_count(h),
      simplechess_game_get_current_stage(h)>>
\* The handles a destroy call may end: the one it was given.
Ended(kinds) == IF last'.op \in kinds THEN {last'.game} ELSE {}

HandlesIndependent ==
    /\ (DOMAIN heap \ DOMAIN heap') \subseteq Ended({"game_destroy"})
    /\ (DOMAIN copies \ DOMAIN copies') \subseteq Ended(DestroyCalls \ {"game_destroy"})
    /\ \A h \in DOMAIN heap \cap DOMAIN heap' : ReportedOfGame(h)' = ReportedOfGame(h)
    /\ \A c \in DOMAIN copies \cap DOMAIN copies' :
          /\ copies'[c].kind = copies[c].kind
          /\ Reported(c)' = Reported(c)
    /\ (last'.op \in DestroyCalls /\ last'.game = NULL) => (heap' = heap /\ copies' = copies)

\* C30: a game, stage, board or played-move handle goes away only when its
\* own destroy function is called on it; whatever else is created or
\* destroyed, the manager and the game it was taken from included, the
\* queries on it keep reporting the same; a destroy function called with NULL
\* changes nothing.
C30_HandlesIndependent == [][HandlesIndependent]_vars

\* C30 witness: the manager, the first game and the stage taken from the game
\* after the move have been destroyed, the game last; the game after the move
\* and the board and the played move taken from the stage are alive.
C30_Witness ==
    /\ last.op = "game_destroy"
    /\ last.game # NULL
    /\ OfKind("manager") = {}
    /\ OfKind("stage") = {}
    /\ OfKind("board") # {}
    /\ OfKind("played_move") # {}
    /\ \A h \in DOMAIN heap : HistoryLength(h) = 2
    /\ Cardinality(DOMAIN heap) = 1

====
